---- MODULE Spec2Model ----
(***************************************************************************)
(* A model of go.uber.org/fx's lifecycle coordinator                       *)
(* (internal/lifecycle/lifecycle.go) driven through fxtest.Lifecycle       *)
(* (fxtest/lifecycle.go).                                                  *)
(*                                                                         *)
(* One caller thread issues Append, Start and Stop calls one after the     *)
(* other, in any order.  A second thread issues the diagnostic reads       *)
(* RunningHookCaller, StartHookRecords and StopHookRecords at any time.    *)
(* The context handed to a Start or Stop call may be cancelled already,    *)
(* or become cancelled at any moment while the call runs.  A hook callback *)
(* that has been invoked returns nil or an error, or never returns.        *)
(*                                                                         *)
(* With it, dig's graph (objNode and funcNode, value and dependencies):    *)
(* nodes are registered and resolved, one call after the other; and fx's   *)
(* Shutdowner: Done channels are opened, Shutdown broadcasts SIGTERM to    *)
(* them with App.broadcastSignal or with the function of                   *)
(* App.signalBroadcaster, and the subscribers receive at any time.         *)
(***************************************************************************)
EXTENDS Integers, Sequences, FiniteSets, TLC

\* ------------------------------------------------------------------ bounds
MaxHooks == 3
MaxCalls == 3

\* dig: the identities (types) a graph may know, the parameters of a
\* constructor, and the constructor invocations that may panic.
MaxIds == 4
MaxDeps == 2
MaxPanics == 1

\* fx: the Done channels of an App, and the Shutdown calls made.
MaxDones == 2
MaxShutdowns == 3

\* task: the calls of the module create function NewModule returned.
MaxModuleCalls == 3

\* HookRecords handed to sort.Sort: the length of a list, and the runtimes
\* its records may have (several, unlike the runtimes Start and Stop measure).
MaxRecords == 3
MaxRuntime == 3

\* Time is not modelled: every runtime time.Since(begin) measures is the same
\* abstract duration.
Durations == {1}

\* ------------------------------------------------------------------ values
\* Holders of Lifecycle.mu.
Free == "free"
Main == "main"
Diag == "diag"

\* error values: nil, the context's error, the error a hook callback returns,
\* and the aggregate multierr builds.
NilErr == [kind |-> "nil", op |-> "", hook |-> 0, errs |-> <<>>]
CtxErr == [kind |-> "ctx", op |-> "", hook |-> 0, errs |-> <<>>]
HookErr(o, i) == [kind |-> "hook", op |-> o, hook |-> i, errs |-> <<>>]
MultiErr(es) == [kind |-> "multi", op |-> "", hook |-> 0, errs |-> es]

\* multierr.Combine(errs...): nil for no error, the error itself for a single
\* one, otherwise one error holding the list.
Combine(es) ==
    IF Len(es) = 0 THEN NilErr
    ELSE IF Len(es) = 1 THEN es[1]
    ELSE MultiErr(es)

\* multierr.Errors(err): the errors an error value contains.
Errors(e) ==
    IF e.kind = "nil" THEN <<>>
    ELSE IF e.kind = "multi" THEN e.errs
    ELSE <<e>>

\* The zero Hook, the value of Lifecycle.runningHook after New.
ZeroHook == [OnStart |-> FALSE, OnStop |-> FALSE, callerFrame |-> 0]

\* A Hook: whether each callback is non-nil, and the caller's frame.
Hook(s, t, f) == [OnStart |-> s, OnStop |-> t, callerFrame |-> f]

\* A HookRecord.
HookRecord(f, fn, d) == [CallerFrame |-> f, Func |-> fn, Runtime |-> d]

\* The zero HookRecord, an element of a list that make has just returned.
ZeroRecord == HookRecord(0, "", 0)

VARIABLES
    \* Lifecycle's fields
    hooks, numStarted, startRecords, stopRecords, runningHook, mu,
    \* the calling thread: where it is, the call it is in, Start's range
    \* index, Stop's errs, the context's Done, the channel c and the value
    \* the caller got from its last call (nil while a call is running)
    pc, op, idx, errs, ctxDone, c, ret,
    \* the diagnostic thread: where it is, the accessor it called, the length
    \* of the list r it has made, its result
    rpc, rkind, rlen, rret,
    \* history: callbacks invoked and not yet returned, the callback events of
    \* the current (or last) call, numStarted at its entry, the hook at which
    \* it saw the context cancelled, the number of calls made
    executing, trace, entryNum, cutAt, calls,
    \* history across calls: per hook the number of start and stop callback
    \* invocations (0, 1, or 2 for more than one), the hooks whose start callback has returned nil, the last
    \* Start call's entry count and failing hook, the Stop calls since
    startCount, stopCount, startedOK, lastStart, stopsSince

VARIABLES
    \* dig's graph: per identity the node registered for it (g.nodes)
    nodes,
    \* per resolving goroutine: the stack of value() frames of its Resolve
    \* call, the identity it asked for, and the result of its last call
    gstack, greq, gres,
    \* history: constructor invocations per identity, those made by each
    \* goroutine's current (or last) call, the arguments of the last
    \* invocation per identity, the invocations that panicked, and whether
    \* the process died of a stack overflow
    invoked, ginv, got, panics, crashed

VARIABLES
    \* App.dones (each a channel of capacity 1: its buffer), and the
    \* goroutines that hold the read lock of App's RWMutex
    dones, readers,
    \* per broadcasting goroutine: where it is, which broadcast function it
    \* runs, the range index, unsent, and the result of its last Shutdown
    bpc, bver, bi, unsent, bres,
    \* history: the Shutdown calls made, per goroutine the number of its
    \* current (or last) call and the channels that call found full and
    \* those it sent to, the last signal each subscriber received; for the
    \* last Shutdown that returned an error for unsent signals, the channels
    \* it found full that have not received since; and what a call found at
    \* its entry
    bcalls, btag, bfull, bsent, recvd, owing, bentry

shutVars == <<dones, readers, bpc, bver, bi, unsent, bres,
              bcalls, btag, bfull, bsent, recvd, owing, bentry>>

VARIABLES
    \* package task: _once (fresh, running its function, done), _asyncMod,
    \* _asyncModErr and _globalBackend
    once, asyncMod, asyncModErr, globalBackend,
    \* per calling goroutine: where it is, the createFunc and the host of its
    \* call, and what its last call returned
    mpc, marg, mret,
    \* history: the calls made, the createFuncs invoked, and every result a
    \* call has returned
    mcalls, creates, returned

taskVars == <<once, asyncMod, asyncModErr, globalBackend,
              mpc, marg, mret, mcalls, creates, returned>>

VARIABLES
    \* a HookRecords value being sorted in place, the value it was when
    \* handed to sort.Sort, and where the sort is: its state and the two
    \* indices of its loops
    sorting, unsorted, spc, si, sj

sortVars == <<sorting, unsorted, spc, si, sj>>

graphVars == <<nodes, gstack, greq, gres, invoked, ginv, got, panics, crashed>>

lcVars == <<hooks, numStarted, startRecords, stopRecords, runningHook, mu>>
callVars == <<pc, op, idx, errs, ctxDone, c, ret>>
diagVars == <<rpc, rkind, rlen, rret>>
histVars == <<executing, trace, entryNum, cutAt, calls>>
crossVars == <<startCount, stopCount, startedOK, lastStart, stopsSince>>
vars == <<lcVars, callVars, diagVars, histVars, crossVars, graphVars, shutVars,
          taskVars, sortVars>>

\* The HookRecords values that may be sorted: records of two callers' OnStart
\* hooks, with any of the runtimes.
SortRecords == {HookRecord(f, "OnStart", d) : f \in 1..2, d \in 1..MaxRuntime}
RecordLists == UNION {[1..n -> SortRecords] : n \in 0..MaxRecords}

\* task: the goroutines that create the module, the BackendCreateFuncs handed
\* to NewModule, and the hosts of the ModuleCreateInfo.
ModuleCallers == {1, 2}
CreateFuncs == {1, 2}
Hosts == {1, 2}

\* A nil service.Module, the AsyncModule of the backend createFunc b made for
\* host h, and the NopBackend the package starts with.
NilModule == [backend |-> 0, host |-> 0]
AsyncModule(b, h) == [backend |-> b, host |-> h]
NopBackend == 0

\* What a call of the module create function returns: the module and the
\* error (nil, the createFunc's, or the wrapped error of Encoder().Register);
\* nothing yet; or nothing, the call having panicked.
ModuleResult(m, e) == [kind |-> "returned", mod |-> m, err |-> e]
NoModuleResult == [kind |-> "none", mod |-> NilModule, err |-> "nil"]
ModulePanic == [kind |-> "panic", mod |-> NilModule, err |-> "nil"]
NoArg == [create |-> 0, host |-> 0]

\* ------------------------------------------------------- shutdown: values
\* The goroutines that call Shutdown.
Broadcasters == {1, 2}

\* The two broadcast functions: App.broadcastSignal, which checks
\* len(app.dones) first, and the function App.signalBroadcaster returns.
Versions == {"broadcastSignal", "signalBroadcaster"}

\* syscall.SIGTERM as sent by the n-th Shutdown call; what a subscriber
\* holds that has received nothing.
Sig(n) == [sig |-> "SIGTERM", n |-> n]
NoSig == [sig |-> "none", n |-> 0]

\* What Shutdown returns: nothing yet, nil, the error for an App without
\* Done channels, or the error "failed to send ... to u out of n channels".
NoReturn == [kind |-> "none", unsent |-> 0, total |-> 0]
NilReturn == [kind |-> "nil", unsent |-> 0, total |-> 0]
NoDones == [kind |-> "noDones", unsent |-> 0, total |-> 0]
Unsent(u, n) == [kind |-> "unsent", unsent |-> u, total |-> n]

\* What a Shutdown call found at its entry: whether the last Shutdown that
\* returned was one that reported unsent signals, whether every channel it
\* had found full has received since, and whether every channel is empty.
NoEntry == [retry |-> FALSE, fullReceived |-> FALSE, allEmpty |-> FALSE]

\* ------------------------------------------------------------ dig: values
\* The identities: MaxIds of them for the nodes registered before a
\* resolution starts, and one more for a dependency declared by a
\* constructor that is registered while a resolution runs.
Ids == 1..(MaxIds + 1)
GraphIds == 1..MaxIds

\* The goroutines that call Resolve.
Resolvers == {1, 2}

\* reflect.Value of a node: the object of an objNode (n = 0), or what the
\* n-th invocation of a constructor returned.  The zero reflect.Value is
\* NoVal.
NoVal == [id |-> 0, n |-> 0]
ObjValue(i) == [id |-> i, n |-> 0]
CtorValue(i, k) == [id |-> i, n |-> k]

\* g.nodes[id]: nothing, an objNode, or a funcNode with its deps.
NoNode == [kind |-> "none", deps |-> <<>>, cached |-> FALSE, cachedValue |-> NoVal]
ObjNode == [kind |-> "obj", deps |-> <<>>, cached |-> FALSE, cachedValue |-> NoVal]
FuncNode(ds) == [kind |-> "func", deps |-> ds, cached |-> FALSE, cachedValue |-> NoVal]

\* What a Resolve call gives its caller: nothing yet, a value, the error of
\* the dependency check (the constructor and the dependency it names, and
\* the number of times it was wrapped on the way up), the error for an
\* identity that has no node, or a constructor's panic.
NoResult == [kind |-> "none", val |-> NoVal, ctor |-> 0, dep |-> 0, wraps |-> 0]
Ok(v) == [kind |-> "value", val |-> v, ctor |-> 0, dep |-> 0, wraps |-> 0]
MissingErr(ct, d) == [kind |-> "missing", val |-> NoVal, ctor |-> ct, dep |-> d, wraps |-> 0]
NotRegistered(i) == [kind |-> "missing", val |-> NoVal, ctor |-> 0, dep |-> i, wraps |-> 0]
Panicked(ct) == [kind |-> "panic", val |-> NoVal, ctor |-> ct, dep |-> 0, wraps |-> 0]

\* A frame of node.value(g): the node, where the frame is ("value" at its
\* entry, "args" in the argument loop), the loop's idx and args so far.
Frame(i) == [id |-> i, pc |-> "value", idx |-> 0, args |-> <<>>]

\* What the diagnostic thread holds before an accessor has returned.
NoValue == [valid |-> FALSE, caller |-> 0, records |-> <<>>]
CallerValue(f) == [valid |-> TRUE, caller |-> f, records |-> <<>>]
RecordsValue(rs) == [valid |-> TRUE, caller |-> 0, records |-> rs]

\* lifecycle.New (and fxtest.NewLifecycle): an empty lifecycle, no call made;
\* an empty graph; an App without Done channels; package task as loaded.
Init ==
    /\ hooks = <<>>
    /\ numStarted = 0
    /\ startRecords = <<>>
    /\ stopRecords = <<>>
    /\ runningHook = ZeroHook
    /\ mu = Free
    /\ pc = "idle"
    /\ op = "none"
    /\ idx = 0
    /\ errs = <<>>
    /\ ctxDone = FALSE
    /\ c = <<>>
    /\ ret = NilErr
    /\ rpc = "idle"
    /\ rkind = "none"
    /\ rlen = 0
    /\ rret = NoValue
    /\ executing = {}
    /\ trace = <<>>
    /\ entryNum = 0
    /\ cutAt = 0
    /\ calls = 0
    /\ startCount = [i \in 1..MaxHooks |-> 0]
    /\ stopCount = [i \in 1..MaxHooks |-> 0]
    /\ startedOK = {}
    /\ lastStart = [entry |-> 0, failed |-> 0, made |-> FALSE]
    /\ stopsSince = 0
    /\ nodes = [i \in Ids |-> NoNode]
    /\ gstack = [t \in Resolvers |-> <<>>]
    /\ greq = [t \in Resolvers |-> 0]
    /\ gres = [t \in Resolvers |-> NoResult]
    /\ invoked = [i \in Ids |-> 0]
    /\ ginv = [t \in Resolvers |-> [i \in Ids |-> 0]]
    /\ got = [i \in Ids |-> <<>>]
    /\ panics = 0
    /\ crashed = FALSE
    /\ dones = <<>>
    /\ readers = {}
    /\ bpc = [t \in Broadcasters |-> "idle"]
    /\ bver = [t \in Broadcasters |-> "none"]
    /\ bi = [t \in Broadcasters |-> 0]
    /\ unsent = [t \in Broadcasters |-> 0]
    /\ bres = [t \in Broadcasters |-> NoReturn]
    /\ bcalls = 0
    /\ btag = [t \in Broadcasters |-> 0]
    /\ bfull = [t \in Broadcasters |-> {}]
    /\ bsent = [t \in Broadcasters |-> {}]
    /\ recvd = <<>>
    /\ owing = [failed |-> FALSE, full |-> {}]
    /\ bentry = [t \in Broadcasters |-> NoEntry]
    /\ once = "fresh"
    /\ asyncMod = NilModule
    /\ asyncModErr = "nil"
    /\ globalBackend = NopBackend
    /\ mpc = [t \in ModuleCallers |-> "idle"]
    /\ marg = [t \in ModuleCallers |-> NoArg]
    /\ mret = [t \in ModuleCallers |-> NoModuleResult]
    /\ mcalls = 0
    /\ creates = <<>>
    /\ returned = {}
    /\ sorting = <<>>
    /\ unsorted = <<>>
    /\ spc = "idle"
    /\ si = 0
    /\ sj = 0

\* ---------------------------------------------------------------- helpers
Begin(i) == [ev |-> "begin", hook |-> i, err |-> NilErr]
End(i, e) == [ev |-> "end", hook |-> i, err |-> e]

\* A call hands its result to the channel c of runWithNoopChan
\* (go func() { c <- f(ctx, ...) }()).
Return(e) ==
    /\ c' = <<e>>
    /\ pc' = "returned"

\* Mutant: the range runs over the hooks from the last to the first.
RangeHookReversed(i) == hooks[Len(hooks) + 1 - i]

\* The hook the i-th pass of "for _, hook := range l.hooks" yields.
RangeHook(i) == hooks[i]

\* Mutant: Stop takes the started hooks in registration order.
StopHookForward(n) == hooks[entryNum + 1 - n]

\* hook := l.hooks[l.numStarted-1] (positions count from 1 here).
StopHook(n) == hooks[n]

\* The outcomes of a hook callback: nil or that hook's own error.
Outcomes(o, i) == {NilErr, HookErr(o, i)}

\* ------------------------------------------------------------------ Append
\* Lifecycle.Append: the hook, with the caller's frame, goes to the end.
AppendHook(s, t) ==
    /\ pc = "idle"
    /\ Len(hooks) < MaxHooks
    /\ hooks' = Append(hooks, Hook(s, t, Len(hooks) + 1))
    /\ UNCHANGED <<numStarted, startRecords, stopRecords, runningHook, mu>>
    /\ UNCHANGED <<callVars, diagVars, histVars, crossVars>>

\* ------------------------------------------------------------------- Start
\* Mutant: Start keeps the start records of earlier calls.
CallStartKeepsRecords(done) ==
    /\ pc = "idle"
    /\ calls < MaxCalls
    /\ calls' = calls + 1
    /\ op' = "Start"
    /\ ctxDone' = done
    /\ idx' = 1
    /\ pc' = "start_loop"
    /\ trace' = <<>>
    /\ entryNum' = numStarted
    /\ cutAt' = 0
    /\ lastStart' = [entry |-> numStarted, failed |-> 0, made |-> TRUE]
    /\ stopsSince' = 0
    /\ UNCHANGED <<hooks, numStarted, startRecords, stopRecords, runningHook, mu>>
    /\ ret' = NilErr
    /\ UNCHANGED <<errs, c, diagVars, executing>>
    /\ UNCHANGED <<startCount, stopCount, startedOK>>

\* Entry of Lifecycle.Start: the start records are replaced (no lock taken),
\* then the range over l.hooks begins.
CallStart(done) ==
    /\ pc = "idle"
    /\ calls < MaxCalls
    /\ calls' = calls + 1
    /\ op' = "Start"
    /\ ctxDone' = done
    /\ startRecords' = <<>>
    /\ idx' = 1
    /\ pc' = "start_loop"
    /\ trace' = <<>>
    /\ entryNum' = numStarted
    /\ cutAt' = 0
    /\ lastStart' = [entry |-> numStarted, failed |-> 0, made |-> TRUE]
    /\ stopsSince' = 0
    /\ UNCHANGED <<hooks, numStarted, stopRecords, runningHook, mu>>
    /\ ret' = NilErr
    /\ UNCHANGED <<errs, c, diagVars, executing>>
    /\ UNCHANGED <<startCount, stopCount, startedOK>>

\* Mutant: Start's loop never looks at ctx.Done().
StartLoopIgnoresCancel ==
    /\ pc = "start_loop"
    /\ IF idx > Len(hooks)
       THEN /\ Return(NilErr)
            /\ UNCHANGED <<numStarted, idx>>
       ELSE IF RangeHook(idx).OnStart
       THEN /\ pc' = "start_lock1"
            /\ UNCHANGED <<numStarted, idx, c>>
       ELSE /\ numStarted' = numStarted + 1
            /\ idx' = idx + 1
            /\ UNCHANGED <<pc, c>>
    /\ UNCHANGED <<hooks, startRecords, stopRecords, runningHook, mu>>
    /\ UNCHANGED <<op, errs, ctxDone, ret, diagVars>>
    /\ UNCHANGED <<executing, trace, entryNum, cutAt, calls, crossVars>>

\* One pass of Start's loop head: the range ends (return nil), the context is
\* done (return ctx.Err()), the hook has a start callback (go on to run it),
\* or it has none (count it and move on).
StartLoop ==
    /\ pc = "start_loop"
    /\ IF idx > Len(hooks)
       THEN /\ Return(NilErr)
            /\ UNCHANGED <<numStarted, idx, cutAt>>
       ELSE IF ctxDone
       THEN /\ Return(CtxErr)
            /\ cutAt' = idx
            /\ UNCHANGED <<numStarted, idx>>
       ELSE IF RangeHook(idx).OnStart
       THEN /\ pc' = "start_lock1"
            /\ UNCHANGED <<numStarted, idx, cutAt, c>>
       ELSE /\ numStarted' = numStarted + 1
            /\ idx' = idx + 1
            /\ UNCHANGED <<pc, cutAt, c>>
    /\ UNCHANGED <<hooks, startRecords, stopRecords, runningHook, mu>>
    /\ UNCHANGED <<op, errs, ctxDone, ret, diagVars>>
    /\ UNCHANGED <<executing, trace, entryNum, calls, crossVars>>

\* l.mu.Lock() before the running hook is set.
StartLock1 ==
    /\ pc = "start_lock1"
    /\ mu = Free
    /\ mu' = Main
    /\ pc' = "start_set"
    /\ UNCHANGED <<hooks, numStarted, startRecords, stopRecords, runningHook>>
    /\ UNCHANGED <<op, idx, errs, ctxDone, c, ret>>
    /\ UNCHANGED <<diagVars, histVars, crossVars>>

\* Mutant: the lock is still held when hook.OnStart(ctx) is invoked.
StartInvokeHoldingLock ==
    /\ pc = "start_set"
    /\ runningHook' = RangeHook(idx)
    /\ executing' = executing \cup {RangeHook(idx).callerFrame}
    /\ trace' = Append(trace, Begin(RangeHook(idx).callerFrame))
    /\ startCount' = [startCount EXCEPT ![RangeHook(idx).callerFrame] = IF @ < 2 THEN @ + 1 ELSE @]
    /\ pc' = "start_running"
    /\ UNCHANGED <<hooks, numStarted, startRecords, stopRecords, mu>>
    /\ UNCHANGED <<op, idx, errs, ctxDone, c, ret, diagVars>>
    /\ UNCHANGED <<entryNum, cutAt, calls>>
    /\ UNCHANGED <<stopCount, startedOK, lastStart, stopsSince>>

\* l.runningHook = hook; l.mu.Unlock(); then hook.OnStart(ctx) is invoked.
StartInvoke ==
    /\ pc = "start_set"
    /\ runningHook' = RangeHook(idx)
    /\ mu' = Free
    /\ executing' = executing \cup {RangeHook(idx).callerFrame}
    /\ trace' = Append(trace, Begin(RangeHook(idx).callerFrame))
    /\ startCount' = [startCount EXCEPT ![RangeHook(idx).callerFrame] = IF @ < 2 THEN @ + 1 ELSE @]
    /\ pc' = "start_running"
    /\ UNCHANGED <<hooks, numStarted, startRecords, stopRecords>>
    /\ UNCHANGED <<op, idx, errs, ctxDone, c, ret, diagVars>>
    /\ UNCHANGED <<entryNum, cutAt, calls>>
    /\ UNCHANGED <<stopCount, startedOK, lastStart, stopsSince>>

\* Mutant: Start keeps going after a start callback's error, as Stop does.
StartCallbackReturnContinue(e) ==
    /\ pc = "start_running"
    /\ e \in Outcomes("start", runningHook.callerFrame)
    /\ executing' = executing \ {runningHook.callerFrame}
    /\ trace' = Append(trace, End(runningHook.callerFrame, e))
    /\ pc' = "start_lock2"
    /\ startedOK' = IF e = NilErr THEN startedOK \cup {runningHook.callerFrame}
                    ELSE startedOK
    /\ lastStart' = IF e = NilErr THEN lastStart
                    ELSE [lastStart EXCEPT !.failed = runningHook.callerFrame]
    /\ UNCHANGED <<lcVars, op, idx, errs, ctxDone, c, ret, diagVars>>
    /\ UNCHANGED <<entryNum, cutAt, calls, startCount, stopCount, stopsSince>>

\* Mutant: the hook whose start callback failed is counted as started.
StartCallbackReturnCounted(e) ==
    /\ pc = "start_running"
    /\ e \in Outcomes("start", runningHook.callerFrame)
    /\ executing' = executing \ {runningHook.callerFrame}
    /\ trace' = Append(trace, End(runningHook.callerFrame, e))
    /\ IF e # NilErr
       THEN /\ Return(e)
            /\ numStarted' = numStarted + 1
            /\ lastStart' = [lastStart EXCEPT !.failed = runningHook.callerFrame]
            /\ UNCHANGED startedOK
       ELSE /\ pc' = "start_lock2"
            /\ startedOK' = startedOK \cup {runningHook.callerFrame}
            /\ UNCHANGED <<numStarted, c, lastStart>>
    /\ UNCHANGED <<hooks, startRecords, stopRecords, runningHook, mu>>
    /\ UNCHANGED <<op, idx, errs, ctxDone, ret, diagVars>>
    /\ UNCHANGED <<entryNum, cutAt, calls, startCount, stopCount, stopsSince>>

\* hook.OnStart(ctx) returns: an error ends Start with that error, nil leads
\* to the record being appended.
StartCallbackReturn(e) ==
    /\ pc = "start_running"
    /\ e \in Outcomes("start", runningHook.callerFrame)
    /\ executing' = executing \ {runningHook.callerFrame}
    /\ trace' = Append(trace, End(runningHook.callerFrame, e))
    /\ IF e # NilErr
       THEN /\ Return(e)
            /\ lastStart' = [lastStart EXCEPT !.failed = runningHook.callerFrame]
            /\ UNCHANGED startedOK
       ELSE /\ pc' = "start_lock2"
            /\ startedOK' = startedOK \cup {runningHook.callerFrame}
            /\ UNCHANGED <<c, lastStart>>
    /\ UNCHANGED <<lcVars, op, idx, errs, ctxDone, ret, diagVars>>
    /\ UNCHANGED <<entryNum, cutAt, calls, startCount, stopCount, stopsSince>>

\* l.mu.Lock() before the start record is appended.
StartLock2 ==
    /\ pc = "start_lock2"
    /\ mu = Free
    /\ mu' = Main
    /\ pc' = "start_rec"
    /\ UNCHANGED <<hooks, numStarted, startRecords, stopRecords, runningHook>>
    /\ UNCHANGED <<op, idx, errs, ctxDone, c, ret>>
    /\ UNCHANGED <<diagVars, histVars, crossVars>>

\* The record is appended, the lock released, the hook counted as started.
StartRecord(d) ==
    /\ pc = "start_rec"
    /\ startRecords' = Append(startRecords,
                              HookRecord(RangeHook(idx).callerFrame, "OnStart", d))
    /\ mu' = Free
    /\ numStarted' = numStarted + 1
    /\ idx' = idx + 1
    /\ pc' = "start_loop"
    /\ UNCHANGED <<hooks, stopRecords, runningHook>>
    /\ UNCHANGED <<op, errs, ctxDone, c, ret>>
    /\ UNCHANGED <<diagVars, histVars, crossVars>>

\* -------------------------------------------------------------------- Stop
\* Entry of Lifecycle.Stop: var errs []error, then l.mu.Lock().
CallStop(done) ==
    /\ pc = "idle"
    /\ calls < MaxCalls
    /\ calls' = calls + 1
    /\ op' = "Stop"
    /\ ctxDone' = done
    /\ errs' = <<>>
    /\ pc' = "stop_lock0"
    /\ trace' = <<>>
    /\ entryNum' = numStarted
    /\ cutAt' = 0
    /\ stopsSince' = stopsSince + 1
    /\ ret' = NilErr
    /\ UNCHANGED <<lcVars, idx, c, diagVars, executing>>
    /\ UNCHANGED <<startCount, stopCount, startedOK, lastStart>>

StopLock0 ==
    /\ pc = "stop_lock0"
    /\ mu = Free
    /\ mu' = Main
    /\ pc' = "stop_reset"
    /\ UNCHANGED <<hooks, numStarted, startRecords, stopRecords, runningHook>>
    /\ UNCHANGED <<op, idx, errs, ctxDone, c, ret>>
    /\ UNCHANGED <<diagVars, histVars, crossVars>>

\* l.stopRecords = make(HookRecords, 0, l.numStarted); l.mu.Unlock().
StopReset ==
    /\ pc = "stop_reset"
    /\ stopRecords' = <<>>
    /\ mu' = Free
    /\ pc' = "stop_loop"
    /\ UNCHANGED <<hooks, numStarted, startRecords, runningHook>>
    /\ UNCHANGED <<op, idx, errs, ctxDone, c, ret>>
    /\ UNCHANGED <<diagVars, histVars, crossVars>>

\* Mutant: Stop's loop never looks at ctx.Done().
StopLoopIgnoresCancel ==
    /\ pc = "stop_loop"
    /\ IF numStarted <= 0
       THEN /\ Return(Combine(errs))
            /\ UNCHANGED numStarted
       ELSE IF numStarted > Len(hooks)
       THEN /\ pc' = "panicked"
            /\ UNCHANGED <<numStarted, c>>
       ELSE IF ~StopHook(numStarted).OnStop
       THEN /\ numStarted' = numStarted - 1
            /\ UNCHANGED <<pc, c>>
       ELSE /\ pc' = "stop_lock1"
            /\ UNCHANGED <<numStarted, c>>
    /\ UNCHANGED <<hooks, startRecords, stopRecords, runningHook, mu>>
    /\ UNCHANGED <<op, idx, errs, ctxDone, ret, diagVars>>
    /\ UNCHANGED <<executing, trace, entryNum, cutAt, calls, crossVars>>

\* Mutant: the loop's post statement l.numStarted-- also runs when Stop
\* returns the context's error, so the hook it was about to stop is passed.
StopLoopCancelSkips ==
    /\ pc = "stop_loop"
    /\ IF numStarted <= 0
       THEN /\ Return(Combine(errs))
            /\ UNCHANGED <<numStarted, cutAt>>
       ELSE IF ctxDone
       THEN /\ Return(CtxErr)
            /\ cutAt' = numStarted
            /\ numStarted' = numStarted - 1
       ELSE IF numStarted > Len(hooks)
       THEN /\ pc' = "panicked"
            /\ UNCHANGED <<numStarted, cutAt, c>>
       ELSE IF ~StopHook(numStarted).OnStop
       THEN /\ numStarted' = numStarted - 1
            /\ UNCHANGED <<pc, cutAt, c>>
       ELSE /\ pc' = "stop_lock1"
            /\ UNCHANGED <<numStarted, cutAt, c>>
    /\ UNCHANGED <<hooks, startRecords, stopRecords, runningHook, mu>>
    /\ UNCHANGED <<op, idx, errs, ctxDone, ret, diagVars>>
    /\ UNCHANGED <<executing, trace, entryNum, calls, crossVars>>

\* Mutant: a Stop that ends with errors counts as many hooks as started
\* again as stop callbacks failed, for a later Stop to retry.
StopLoopRecountsFailed ==
    /\ pc = "stop_loop"
    /\ IF numStarted <= 0
       THEN /\ Return(Combine(errs))
            /\ numStarted' = Len(errs)
            /\ UNCHANGED cutAt
       ELSE IF ctxDone
       THEN /\ Return(CtxErr)
            /\ cutAt' = numStarted
            /\ UNCHANGED numStarted
       ELSE IF numStarted > Len(hooks)
       THEN /\ pc' = "panicked"
            /\ UNCHANGED <<numStarted, cutAt, c>>
       ELSE IF ~StopHook(numStarted).OnStop
       THEN /\ numStarted' = numStarted - 1
            /\ UNCHANGED <<pc, cutAt, c>>
       ELSE /\ pc' = "stop_lock1"
            /\ UNCHANGED <<numStarted, cutAt, c>>
    /\ UNCHANGED <<hooks, startRecords, stopRecords, runningHook, mu>>
    /\ UNCHANGED <<op, idx, errs, ctxDone, ret, diagVars>>
    /\ UNCHANGED <<executing, trace, entryNum, calls, crossVars>>

\* One pass of Stop's loop head: nothing is counted as started any more
\* (return the combined errors), the context is done (return ctx.Err()),
\* l.hooks[l.numStarted-1] is out of range (panic), the hook has no stop
\* callback (continue, which decrements), or it has one (go on to run it).
StopLoop ==
    /\ pc = "stop_loop"
    /\ IF numStarted <= 0
       THEN /\ Return(Combine(errs))
            /\ UNCHANGED <<numStarted, cutAt>>
       ELSE IF ctxDone
       THEN /\ Return(CtxErr)
            /\ cutAt' = numStarted
            /\ UNCHANGED numStarted
       ELSE IF numStarted > Len(hooks)
       THEN /\ pc' = "panicked"
            /\ UNCHANGED <<numStarted, cutAt, c>>
       ELSE IF ~StopHook(numStarted).OnStop
       THEN /\ numStarted' = numStarted - 1
            /\ UNCHANGED <<pc, cutAt, c>>
       ELSE /\ pc' = "stop_lock1"
            /\ UNCHANGED <<numStarted, cutAt, c>>
    /\ UNCHANGED <<hooks, startRecords, stopRecords, runningHook, mu>>
    /\ UNCHANGED <<op, idx, errs, ctxDone, ret, diagVars>>
    /\ UNCHANGED <<executing, trace, entryNum, calls, crossVars>>

StopLock1 ==
    /\ pc = "stop_lock1"
    /\ mu = Free
    /\ mu' = Main
    /\ pc' = "stop_set"
    /\ UNCHANGED <<hooks, numStarted, startRecords, stopRecords, runningHook>>
    /\ UNCHANGED <<op, idx, errs, ctxDone, c, ret>>
    /\ UNCHANGED <<diagVars, histVars, crossVars>>

\* Mutant: Stop invokes hook.OnStop(ctx) without recording the running hook.
StopInvokeStaleRunning ==
    /\ pc = "stop_set"
    /\ mu' = Free
    /\ executing' = executing \cup {StopHook(numStarted).callerFrame}
    /\ trace' = Append(trace, Begin(StopHook(numStarted).callerFrame))
    /\ stopCount' = [stopCount EXCEPT ![StopHook(numStarted).callerFrame] = IF @ < 2 THEN @ + 1 ELSE @]
    /\ pc' = "stop_running"
    /\ UNCHANGED <<hooks, numStarted, startRecords, stopRecords, runningHook>>
    /\ UNCHANGED <<op, idx, errs, ctxDone, c, ret, diagVars>>
    /\ UNCHANGED <<entryNum, cutAt, calls>>
    /\ UNCHANGED <<startCount, startedOK, lastStart, stopsSince>>

\* l.runningHook = hook; l.mu.Unlock(); then hook.OnStop(ctx) is invoked.
StopInvoke ==
    /\ pc = "stop_set"
    /\ runningHook' = StopHook(numStarted)
    /\ mu' = Free
    /\ executing' = executing \cup {StopHook(numStarted).callerFrame}
    /\ trace' = Append(trace, Begin(StopHook(numStarted).callerFrame))
    /\ stopCount' = [stopCount EXCEPT ![StopHook(numStarted).callerFrame] = IF @ < 2 THEN @ + 1 ELSE @]
    /\ pc' = "stop_running"
    /\ UNCHANGED <<hooks, numStarted, startRecords, stopRecords>>
    /\ UNCHANGED <<op, idx, errs, ctxDone, c, ret, diagVars>>
    /\ UNCHANGED <<entryNum, cutAt, calls>>
    /\ UNCHANGED <<startCount, startedOK, lastStart, stopsSince>>

\* Mutant: Stop returns at the first stop callback's error, as Start does.
StopCallbackReturnHalt(e) ==
    /\ pc = "stop_running"
    /\ e \in Outcomes("stop", runningHook.callerFrame)
    /\ executing' = executing \ {runningHook.callerFrame}
    /\ trace' = Append(trace, End(runningHook.callerFrame, e))
    /\ IF e # NilErr
       THEN /\ Return(e)
            /\ UNCHANGED errs
       ELSE /\ pc' = "stop_lock2"
            /\ UNCHANGED <<errs, c>>
    /\ UNCHANGED <<lcVars, op, idx, ctxDone, ret, diagVars>>
    /\ UNCHANGED <<entryNum, cutAt, calls, crossVars>>

\* Mutant: a stop callback that returns an error gets no record, as a start
\* callback that fails gets none.
StopCallbackReturnUnrecorded(e) ==
    /\ pc = "stop_running"
    /\ e \in Outcomes("stop", runningHook.callerFrame)
    /\ executing' = executing \ {runningHook.callerFrame}
    /\ trace' = Append(trace, End(runningHook.callerFrame, e))
    /\ IF e # NilErr
       THEN /\ errs' = Append(errs, e)
            /\ numStarted' = numStarted - 1
            /\ pc' = "stop_loop"
       ELSE /\ pc' = "stop_lock2"
            /\ UNCHANGED <<errs, numStarted>>
    /\ UNCHANGED <<hooks, startRecords, stopRecords, runningHook, mu>>
    /\ UNCHANGED <<op, idx, ctxDone, c, ret, diagVars>>
    /\ UNCHANGED <<entryNum, cutAt, calls, crossVars>>

\* hook.OnStop(ctx) returns: an error is kept in errs, and Stop goes on.
StopCallbackReturn(e) ==
    /\ pc = "stop_running"
    /\ e \in Outcomes("stop", runningHook.callerFrame)
    /\ executing' = executing \ {runningHook.callerFrame}
    /\ trace' = Append(trace, End(runningHook.callerFrame, e))
    /\ errs' = IF e # NilErr THEN Append(errs, e) ELSE errs
    /\ pc' = "stop_lock2"
    /\ UNCHANGED <<lcVars, op, idx, ctxDone, c, ret, diagVars>>
    /\ UNCHANGED <<entryNum, cutAt, calls, crossVars>>

StopLock2 ==
    /\ pc = "stop_lock2"
    /\ mu = Free
    /\ mu' = Main
    /\ pc' = "stop_rec"
    /\ UNCHANGED <<hooks, numStarted, startRecords, stopRecords, runningHook>>
    /\ UNCHANGED <<op, idx, errs, ctxDone, c, ret>>
    /\ UNCHANGED <<diagVars, histVars, crossVars>>

\* The record is appended, the lock released, and the loop's post statement
\* l.numStarted-- runs.
StopRecord(d) ==
    /\ pc = "stop_rec"
    /\ stopRecords' = Append(stopRecords,
                             HookRecord(StopHook(numStarted).callerFrame, "OnStop", d))
    /\ mu' = Free
    /\ numStarted' = numStarted - 1
    /\ pc' = "stop_loop"
    /\ UNCHANGED <<hooks, startRecords, runningHook>>
    /\ UNCHANGED <<op, idx, errs, ctxDone, c, ret>>
    /\ UNCHANGED <<diagVars, histVars, crossVars>>

\* ------------------------------------------------- runWithNoopChan, context
\* runWithNoopChan's select receives the call's result from c and returns it;
\* the locals of the call that has ended are gone.
WrapperRecv ==
    /\ pc = "returned"
    /\ ret' = Head(c)
    /\ c' = Tail(c)
    /\ pc' = "idle"
    /\ idx' = 0
    /\ errs' = <<>>
    /\ UNCHANGED <<lcVars, op, ctxDone>>
    /\ UNCHANGED <<diagVars, histVars, crossVars>>

\* The context of the running call is cancelled (or its deadline passes).
\* Start and Stop look at ctx.Done() at their loop heads only, so what
\* matters is whether it happens before a loop head or while a callback runs.
Cancel ==
    /\ pc \in {"start_loop", "stop_loop", "start_running", "stop_running"}
    /\ ~ctxDone
    /\ ctxDone' = TRUE
    /\ UNCHANGED <<lcVars, pc, op, idx, errs, c, ret>>
    /\ UNCHANGED <<diagVars, histVars, crossVars>>

\* ------------------------------------------------------------- diagnostics
DiagKinds == {"RunningHookCaller", "StartHookRecords", "StopHookRecords"}

\* Another thread calls one of the accessors.
DiagCall(k) ==
    /\ rpc = "idle"
    /\ k \in DiagKinds
    /\ rkind' = k
    /\ rlen' = 0
    /\ rret' = NoValue
    /\ rpc' = "lock"
    /\ UNCHANGED <<lcVars, callVars, histVars, crossVars>>

\* l.mu.Lock() at the head of each accessor.
DiagLock ==
    /\ rpc = "lock"
    /\ mu = Free
    /\ mu' = Diag
    /\ rpc' = "held"
    /\ UNCHANGED <<hooks, numStarted, startRecords, stopRecords, runningHook>>
    /\ UNCHANGED <<rkind, rlen, rret, callVars, histVars, crossVars>>

\* The list an accessor copies.
RecordList(k) == IF k = "StartHookRecords" THEN startRecords ELSE stopRecords

\* r := make(HookRecords, len(l.startRecords)), or len(l.stopRecords): the
\* length is read, and r holds that many zero records.
DiagMake ==
    /\ rpc = "held"
    /\ rkind \in {"StartHookRecords", "StopHookRecords"}
    /\ rlen' = Len(RecordList(rkind))
    /\ rpc' = "made"
    /\ UNCHANGED <<lcVars, rkind, rret, callVars, histVars, crossVars>>

\* copy(r, src) into an r of n zero records: min(n, len(src)) records are
\* copied, the others stay zero.
Copy(n, src) == [p \in 1..n |-> IF p <= Len(src) THEN src[p] ELSE ZeroRecord]

\* The accessor's result, and the deferred l.mu.Unlock().
DiagResult(k, v) ==
    /\ rpc = IF k = "RunningHookCaller" THEN "held" ELSE "made"
    /\ rkind = k
    /\ rret' = v
    /\ mu' = Free
    /\ rpc' = "idle"
    /\ UNCHANGED <<hooks, numStarted, startRecords, stopRecords, runningHook>>
    /\ UNCHANGED <<rkind, rlen, callVars, histVars, crossVars>>

\* Lifecycle.StartHookRecords: copy(r, l.startRecords); return r.
StartHookRecords ==
    DiagResult("StartHookRecords", RecordsValue(Copy(rlen, startRecords)))

\* Lifecycle.StopHookRecords: copy(r, l.stopRecords); return r.
StopHookRecords ==
    DiagResult("StopHookRecords", RecordsValue(Copy(rlen, stopRecords)))

\* Lifecycle.RunningHookCaller: l.runningHook.callerFrame.Function.
RunningHookCaller == DiagResult("RunningHookCaller", CallerValue(runningHook.callerFrame))

\* -------------------------------------------------------------- dig: graph
\* The lists of dependencies a constructor for identity i may declare: its
\* parameter types are distinct, and the identities are numbered so that a
\* constructor depends on itself or on later identities (a graph without a
\* self-dependency is acyclic and has such a numbering).
DepLists(i) ==
    {ds \in UNION {[1..n -> i..MaxIds] : n \in 0..MaxDeps} :
        \A p \in DOMAIN ds, q \in DOMAIN ds : p # q => ds[p] # ds[q]}

Idle(t) == gstack[t] = <<>>

\* The frame of the value() call that is running.
Top(t) == gstack[t][Len(gstack[t])]

\* The identities on a goroutine's stack.
OnStack(t) == {gstack[t][k].id : k \in 1..Len(gstack[t])}

\* Mutant: the check looks only at the dependencies of the node whose
\* value() call is running.
MissingDepsOwn ==
    {d \in Ids : /\ nodes[d].kind = "none"
                 /\ \E t \in Resolvers :
                       /\ ~Idle(t)
                       /\ \E p \in DOMAIN nodes[Top(t).id].deps : nodes[Top(t).id].deps[p] = d}

\* The dependencies of all nodes of the graph that have no node: what the
\* loops over g.nodes and node.dependencies() look for.
MissingDeps ==
    {d \in Ids : /\ nodes[d].kind = "none"
                 /\ \E m \in Ids : \E p \in DOMAIN nodes[m].deps : nodes[m].deps[p] = d}

\* registerValue(id, value): a node that holds an object.
RegisterValue(i) ==
    /\ ~crashed
    /\ \A t \in Resolvers : Idle(t)
    /\ nodes[i].kind = "none"
    /\ nodes' = [nodes EXCEPT ![i] = ObjNode]
    /\ UNCHANGED <<gstack, greq, gres, invoked, ginv, got, panics, crashed>>

\* registerConstructor(id, constructor, deps): a node that holds a
\* constructor and the identities of its parameters.
RegisterConstructor(i, ds) ==
    /\ ~crashed
    /\ \A t \in Resolvers : Idle(t)
    /\ nodes[i].kind = "none"
    /\ ds \in DepLists(i)
    /\ nodes' = [nodes EXCEPT ![i] = FuncNode(ds)]
    /\ UNCHANGED <<gstack, greq, gres, invoked, ginv, got, panics, crashed>>

\* registerConstructor(id, constructor, <<d>>) called by the constructor
\* that goroutine t is invoking (the body of cv.Call): the graph gets a node
\* while a resolution runs.
RegisterInConstructor(t, i, d) ==
    /\ ~crashed
    /\ ~Idle(t)
    /\ Top(t).pc = "args"
    /\ Top(t).idx > Len(nodes[Top(t).id].deps)
    /\ nodes[i].kind = "none"
    /\ d \in Ids \ {i}
    /\ nodes' = [nodes EXCEPT ![i] = FuncNode(<<d>>)]
    /\ UNCHANGED <<gstack, greq, gres, invoked, ginv, got, panics, crashed>>

\* resolve(id): an identity without a node is an error, otherwise
\* node.value(g) is called.
Resolve(t, i) ==
    /\ ~crashed
    /\ Idle(t)
    /\ greq' = [greq EXCEPT ![t] = i]
    /\ ginv' = [ginv EXCEPT ![t] = [j \in Ids |-> 0]]
    /\ IF nodes[i].kind = "none"
       THEN /\ gres' = [gres EXCEPT ![t] = NotRegistered(i)]
            /\ UNCHANGED gstack
       ELSE /\ gres' = [gres EXCEPT ![t] = NoResult]
            /\ gstack' = [gstack EXCEPT ![t] = <<Frame(i)>>]
    /\ UNCHANGED <<nodes, invoked, got, panics, crashed>>

\* Mutant: the argument loop drops the value it got and stays at the same
\* parameter.
DeliverLoopStuck(t, r) ==
    LET st == gstack[t]
        n == Len(st)
    IN  IF n = 1
        THEN /\ gstack' = [gstack EXCEPT ![t] = <<>>]
             /\ gres' = [gres EXCEPT ![t] = r]
        ELSE IF r.kind = "value"
        THEN /\ gstack' = [gstack EXCEPT ![t] = SubSeq(st, 1, n - 1)]
             /\ UNCHANGED gres
        ELSE /\ gstack' = [gstack EXCEPT ![t] = <<>>]
             /\ gres' = [gres EXCEPT ![t] = [r EXCEPT !.wraps = @ + (n - 1)]]

\* Mutant: the argument loop ignores the error of node.value(g) and goes on
\* with the zero Value as the argument.
DeliverSwallowsError(t, r) ==
    LET st == gstack[t]
        n == Len(st)
    IN  IF n = 1
        THEN /\ gstack' = [gstack EXCEPT ![t] = <<>>]
             /\ gres' = [gres EXCEPT ![t] = r]
        ELSE /\ gstack' = [gstack EXCEPT ![t] =
                    SubSeq(st, 1, n - 2) \o
                    <<[st[n - 1] EXCEPT !.args = Append(@, r.val), !.idx = @ + 1]>>]
             /\ UNCHANGED gres

\* Mutant: the argument loop puts each resolved value in front of the ones it
\* has, so args comes out in the reverse of the declared order.
DeliverPrepend(t, r) ==
    LET st == gstack[t]
        n == Len(st)
    IN  IF n = 1
        THEN /\ gstack' = [gstack EXCEPT ![t] = <<>>]
             /\ gres' = [gres EXCEPT ![t] = r]
        ELSE IF r.kind = "value"
        THEN /\ gstack' = [gstack EXCEPT ![t] =
                    SubSeq(st, 1, n - 2) \o
                    <<[st[n - 1] EXCEPT !.args = <<r.val>> \o @, !.idx = @ + 1]>>]
             /\ UNCHANGED gres
        ELSE /\ gstack' = [gstack EXCEPT ![t] = <<>>]
             /\ gres' = [gres EXCEPT ![t] = [r EXCEPT !.wraps = @ + (n - 1)]]

\* The running value() call returns r: to Resolve's caller; or to the
\* argument loop of the frame below, which stores a value in args[idx] and
\* returns an error wrapped, as does every frame below it.
Deliver(t, r) ==
    LET st == gstack[t]
        n == Len(st)
    IN  IF n = 1
        THEN /\ gstack' = [gstack EXCEPT ![t] = <<>>]
             /\ gres' = [gres EXCEPT ![t] = r]
        ELSE IF r.kind = "value"
        THEN /\ gstack' = [gstack EXCEPT ![t] =
                    SubSeq(st, 1, n - 2) \o
                    <<[st[n - 1] EXCEPT !.args = Append(@, r.val), !.idx = @ + 1]>>]
             /\ UNCHANGED gres
        ELSE /\ gstack' = [gstack EXCEPT ![t] = <<>>]
             /\ gres' = [gres EXCEPT ![t] = [r EXCEPT !.wraps = @ + (n - 1)]]

\* objNode.value: reflect.ValueOf(n.obj).
ObjNodeValue(t) ==
    /\ ~crashed
    /\ ~Idle(t)
    /\ Top(t).pc = "value"
    /\ nodes[Top(t).id].kind = "obj"
    /\ Deliver(t, Ok(ObjValue(Top(t).id)))
    /\ UNCHANGED <<nodes, greq, invoked, ginv, got, panics, crashed>>

\* Mutant: a cached node checks the dependencies of the graph before it
\* returns its value.
FuncNodeCachedChecked(t) ==
    /\ ~crashed
    /\ ~Idle(t)
    /\ Top(t).pc = "value"
    /\ nodes[Top(t).id].kind = "func"
    /\ nodes[Top(t).id].cached
    /\ IF MissingDeps = {}
       THEN Deliver(t, Ok(nodes[Top(t).id].cachedValue))
       ELSE \E d \in MissingDeps : Deliver(t, MissingErr(Top(t).id, d))
    /\ UNCHANGED <<nodes, greq, invoked, ginv, got, panics, crashed>>

\* funcNode.value: if n.cached { return n.cachedValue, nil }.
FuncNodeCached(t) ==
    /\ ~crashed
    /\ ~Idle(t)
    /\ Top(t).pc = "value"
    /\ nodes[Top(t).id].kind = "func"
    /\ nodes[Top(t).id].cached
    /\ Deliver(t, Ok(nodes[Top(t).id].cachedValue))
    /\ UNCHANGED <<nodes, greq, invoked, ginv, got, panics, crashed>>

\* funcNode.value: the check finds a dependency d that has no node.  The
\* loop ranges over the map g.nodes, in an order Go leaves open, so d is
\* any missing dependency of any node; the error names the constructor of
\* the node being resolved.
FuncNodeMissing(t, d) ==
    /\ ~crashed
    /\ ~Idle(t)
    /\ Top(t).pc = "value"
    /\ nodes[Top(t).id].kind = "func"
    /\ ~nodes[Top(t).id].cached
    /\ d \in MissingDeps
    /\ Deliver(t, MissingErr(Top(t).id, d))
    /\ UNCHANGED <<nodes, greq, invoked, ginv, got, panics, crashed>>

\* funcNode.value: every dependency of every node has a node; args is made.
FuncNodeChecked(t) ==
    /\ ~crashed
    /\ ~Idle(t)
    /\ Top(t).pc = "value"
    /\ nodes[Top(t).id].kind = "func"
    /\ ~nodes[Top(t).id].cached
    /\ MissingDeps = {}
    /\ gstack' = [gstack EXCEPT ![t][Len(gstack[t])] = [@ EXCEPT !.pc = "args", !.idx = 1]]
    /\ UNCHANGED <<nodes, greq, gres, invoked, ginv, got, panics, crashed>>

\* The argument loop: a parameter type that has a node is resolved with
\* node.value(g); one that has none leaves the zero Value in args[idx].
FuncNodeArg(t) ==
    /\ ~crashed
    /\ ~Idle(t)
    /\ Top(t).pc = "args"
    /\ Top(t).idx <= Len(nodes[Top(t).id].deps)
    /\ LET dep == nodes[Top(t).id].deps[Top(t).idx]
       IN  /\ dep \notin OnStack(t)
           /\ IF nodes[dep].kind = "none"
              THEN gstack' = [gstack EXCEPT ![t][Len(gstack[t])] =
                                 [@ EXCEPT !.args = Append(@, NoVal), !.idx = @ + 1]]
              ELSE gstack' = [gstack EXCEPT ![t] = Append(@, Frame(dep))]
    /\ UNCHANGED <<nodes, greq, gres, invoked, ginv, got, panics, crashed>>

\* The argument loop reaches a node whose value() call is already on the
\* stack: the recursion never ends, and the Go runtime ends the process
\* when the stack reaches its limit.
StackOverflow(t) ==
    /\ ~crashed
    /\ ~Idle(t)
    /\ Top(t).pc = "args"
    /\ Top(t).idx <= Len(nodes[Top(t).id].deps)
    /\ nodes[Top(t).id].deps[Top(t).idx] \in OnStack(t)
    /\ crashed' = TRUE
    /\ UNCHANGED <<nodes, gstack, greq, gres, invoked, ginv, got, panics>>

\* What cv.Call(args) can do: return the constructor's value, or panic.
CallOutcomes == {"ok", "panic"}

\* cv.Call(args)[0]; n.cached = true; n.cachedValue = v; return v, nil.
\* A panic of the constructor unwinds every frame of the call.
\* (cacheOk: the node is cached after the call returned; cacheFirst: the
\* node is marked cached before the call.)
Invocation(t, out, cacheOk, cacheFirst) ==
    LET i == Top(t).id
        k == invoked[i] + 1
    IN  /\ ~crashed
        /\ ~Idle(t)
        /\ Top(t).pc = "args"
        /\ Top(t).idx > Len(nodes[i].deps)
        /\ out \in CallOutcomes
        /\ invoked' = [invoked EXCEPT ![i] = k]
        /\ ginv' = [ginv EXCEPT ![t][i] = @ + 1]
        /\ got' = [got EXCEPT ![i] = Top(t).args]
        /\ IF out = "ok"
           THEN /\ nodes' = IF cacheOk
                            THEN [nodes EXCEPT ![i].cached = TRUE,
                                               ![i].cachedValue = CtorValue(i, k)]
                            ELSE nodes
                /\ Deliver(t, Ok(CtorValue(i, k)))
                /\ UNCHANGED panics
           ELSE /\ panics < MaxPanics
                /\ panics' = panics + 1
                /\ nodes' = IF cacheFirst
                            THEN [nodes EXCEPT ![i].cached = TRUE]
                            ELSE nodes
                /\ gstack' = [gstack EXCEPT ![t] = <<>>]
                /\ gres' = [gres EXCEPT ![t] = Panicked(i)]
        /\ UNCHANGED <<greq, crashed>>

\* Mutant: the constructor's value is returned and not cached.
FuncNodeInvokeUncached(t, out) == Invocation(t, out, FALSE, FALSE)

\* Mutant: the node is marked cached before the constructor is called.
FuncNodeInvokeCachesFirst(t, out) == Invocation(t, out, TRUE, TRUE)

\* Mutant: the constructor is called only if the node is still not cached.
FuncNodeInvokeOnce(t, out) ==
    /\ ~Idle(t)
    /\ ~nodes[Top(t).id].cached
    /\ Invocation(t, out, TRUE, FALSE)

\* funcNode.value: the constructor is called with args.
FuncNodeInvoke(t, out) == Invocation(t, out, TRUE, FALSE)

\* --------------------------------------------------------------- shutdown
\* App.Done: a new channel of capacity 1 is appended to app.dones under the
\* write lock.
Done ==
    /\ readers = {}
    /\ Len(dones) < MaxDones
    /\ dones' = Append(dones, <<>>)
    /\ recvd' = Append(recvd, NoSig)
    /\ UNCHANGED <<readers, bpc, bver, bi, unsent, bres, bcalls, btag, bfull, bsent, owing, bentry>>

\* shutdowner.Shutdown: s.app.broadcastSignal(syscall.SIGTERM), or
\* s.broadcastSignal(syscall.SIGTERM) with the function of signalBroadcaster.
Shutdown(t, v) ==
    /\ bpc[t] = "idle"
    /\ bcalls < MaxShutdowns
    /\ v \in Versions
    /\ bcalls' = bcalls + 1
    /\ btag' = [btag EXCEPT ![t] = bcalls + 1]
    /\ bver' = [bver EXCEPT ![t] = v]
    /\ bpc' = [bpc EXCEPT ![t] = IF v = "broadcastSignal" THEN "check" ELSE "rlock"]
    /\ bres' = [bres EXCEPT ![t] = NoReturn]
    /\ bfull' = [bfull EXCEPT ![t] = {}]
    /\ bsent' = [bsent EXCEPT ![t] = {}]
    /\ bentry' = [bentry EXCEPT ![t] =
                     [retry |-> owing.failed,
                      fullReceived |-> owing.full = {},
                      allEmpty |-> \A k \in DOMAIN dones : dones[k] = <<>>]]
    /\ UNCHANGED <<dones, readers, bi, unsent, recvd, owing>>

\* broadcastSignal: if len(app.dones) < 1 { return errors.New(...) }, read
\* before the lock is taken.
CheckDones(t) ==
    /\ bpc[t] = "check"
    /\ IF Len(dones) < 1
       THEN /\ bpc' = [bpc EXCEPT ![t] = "idle"]
            /\ bres' = [bres EXCEPT ![t] = NoDones]
            /\ owing' = [failed |-> FALSE, full |-> {}]
       ELSE /\ bpc' = [bpc EXCEPT ![t] = "rlock"]
            /\ UNCHANGED <<bres, owing>>
    /\ UNCHANGED <<dones, readers, bver, bi, unsent, bcalls, btag, bfull, bsent, recvd, bentry>>

\* Mutant: unsent keeps the count of the goroutine's last broadcast.
RLockStaleUnsent(t) ==
    /\ bpc[t] = "rlock"
    /\ readers' = readers \cup {t}
    /\ bi' = [bi EXCEPT ![t] = 1]
    /\ bpc' = [bpc EXCEPT ![t] = "range"]
    /\ UNCHANGED <<dones, bver, unsent, bres, bcalls, btag, bfull, bsent, recvd, owing, bentry>>

\* RLock(); defer RUnlock(); var unsent int.  Done is the only writer and
\* holds the write lock for its one step.
RLock(t) ==
    /\ bpc[t] = "rlock"
    /\ readers' = readers \cup {t}
    /\ unsent' = [unsent EXCEPT ![t] = 0]
    /\ bi' = [bi EXCEPT ![t] = 1]
    /\ bpc' = [bpc EXCEPT ![t] = "range"]
    /\ UNCHANGED <<dones, bver, bres, bcalls, btag, bfull, bsent, recvd, owing, bentry>>

\* One round of the loop over app.dones, and what it does with a channel
\* whose buffer is full: count it or not, go on or leave the loop, leave the
\* buffer or replace what it holds.
Select(t, count, goOn, replace) ==
    LET k == bi[t]
    IN  /\ bpc[t] = "range"
        /\ k <= Len(dones)
        /\ IF dones[k] = <<>>
           THEN /\ dones' = [dones EXCEPT ![k] = <<Sig(btag[t])>>]
                /\ bsent' = [bsent EXCEPT ![t] = @ \cup {k}]
                /\ bi' = [bi EXCEPT ![t] = k + 1]
                /\ UNCHANGED <<unsent, bfull>>
           ELSE /\ dones' = IF replace THEN [dones EXCEPT ![k] = <<Sig(btag[t])>>] ELSE dones
                /\ unsent' = IF count THEN [unsent EXCEPT ![t] = @ + 1] ELSE unsent
                /\ bfull' = [bfull EXCEPT ![t] = @ \cup {k}]
                /\ bi' = [bi EXCEPT ![t] = IF goOn THEN k + 1 ELSE Len(dones) + 1]
                /\ UNCHANGED bsent
        /\ UNCHANGED <<readers, bpc, bver, bres, bcalls, btag, recvd, owing, bentry>>

\* Mutant: the Done channels have room for two signals.
SendQueues(t) ==
    LET k == bi[t]
    IN  /\ bpc[t] = "range"
        /\ k <= Len(dones)
        /\ IF Len(dones[k]) < 2
           THEN /\ dones' = [dones EXCEPT ![k] = Append(@, Sig(btag[t]))]
                /\ bsent' = [bsent EXCEPT ![t] = @ \cup {k}]
                /\ UNCHANGED <<unsent, bfull>>
           ELSE /\ unsent' = [unsent EXCEPT ![t] = @ + 1]
                /\ bfull' = [bfull EXCEPT ![t] = @ \cup {k}]
                /\ UNCHANGED <<dones, bsent>>
        /\ bi' = [bi EXCEPT ![t] = k + 1]
        /\ UNCHANGED <<readers, bpc, bver, bres, bcalls, btag, recvd, owing, bentry>>

\* Mutant: the select has no default case, so the send waits for room.
SendBlocks(t) ==
    /\ bpc[t] = "range"
    /\ bi[t] <= Len(dones)
    /\ dones[bi[t]] = <<>>
    /\ Select(t, TRUE, TRUE, FALSE)

\* Mutant: the loop ends at the first channel that is full.
SendStopsAtFull(t) == Select(t, TRUE, FALSE, FALSE)

\* Mutant: a full channel is not counted.
SendUncounted(t) == Select(t, FALSE, TRUE, FALSE)

\* Mutant: the signal replaces the one a full channel holds.
SendOverwrites(t) == Select(t, TRUE, TRUE, TRUE)

\* select { case done <- signal: default: unsent++ }.
Send(t) == Select(t, TRUE, TRUE, FALSE)

\* After the loop: the error for unsent signals, or nil; RUnlock().
Finish(t) ==
    /\ bpc[t] = "range"
    /\ bi[t] > Len(dones)
    /\ bres' = [bres EXCEPT ![t] = IF unsent[t] # 0
                                   THEN Unsent(unsent[t], Len(dones))
                                   ELSE NilReturn]
    /\ owing' = [failed |-> unsent[t] # 0,
                 full |-> {k \in bfull[t] : dones[k] # <<>>}]
    /\ readers' = readers \ {t}
    /\ bpc' = [bpc EXCEPT ![t] = "idle"]
    /\ UNCHANGED <<dones, bver, bi, unsent, bcalls, btag, bfull, bsent, recvd, bentry>>

\* A subscriber receives from its Done channel (<-done).
Receive(k) ==
    /\ k \in DOMAIN dones
    /\ dones[k] # <<>>
    /\ recvd' = [recvd EXCEPT ![k] = Head(dones[k])]
    /\ dones' = [dones EXCEPT ![k] = Tail(@)]
    /\ owing' = [owing EXCEPT !.full = @ \ {k}]
    /\ UNCHANGED <<readers, bpc, bver, bi, unsent, bres, bcalls, btag, bfull, bsent, bentry>>

\* ------------------------------------------------- task: the async module
\* A goroutine calls the function NewModule(createFunc) returned, with a
\* ModuleCreateInfo of host h.
NewModule(t, f, h) ==
    /\ mpc[t] = "idle"
    /\ mcalls < MaxModuleCalls
    /\ f \in CreateFuncs
    /\ h \in Hosts
    /\ mcalls' = mcalls + 1
    /\ marg' = [marg EXCEPT ![t] = [create |-> f, host |-> h]]
    /\ mret' = [mret EXCEPT ![t] = NoModuleResult]
    /\ mpc' = [mpc EXCEPT ![t] = "once"]
    /\ UNCHANGED <<once, asyncMod, asyncModErr, globalBackend, creates, returned>>

\* Mutant: a creation that failed is made again by the next call.
OnceDoRetries(t) ==
    /\ mpc[t] = "once"
    /\ once # "running"
    /\ IF once = "fresh" \/ asyncModErr # "nil"
       THEN /\ once' = "running"
            /\ mpc' = [mpc EXCEPT ![t] = "create"]
       ELSE /\ mpc' = [mpc EXCEPT ![t] = "return"]
            /\ UNCHANGED once
    /\ UNCHANGED <<asyncMod, asyncModErr, globalBackend, marg, mret, mcalls,
                   creates, returned>>

\* newAsyncModuleSingleton: _once.Do(func() {...}).  The first goroutine to
\* arrive runs the function; one that arrives while it runs waits for it;
\* one that arrives later goes on at once.
OnceDo(t) ==
    /\ mpc[t] = "once"
    /\ once # "running"
    /\ IF once = "fresh"
       THEN /\ once' = "running"
            /\ mpc' = [mpc EXCEPT ![t] = "create"]
       ELSE /\ mpc' = [mpc EXCEPT ![t] = "return"]
            /\ UNCHANGED once
    /\ UNCHANGED <<asyncMod, asyncModErr, globalBackend, marg, mret, mcalls,
                   creates, returned>>

\* The function handed to Do has ended: returning (m, e), which line 67
\* assigns, or panicking, which leaves the two variables as they were and
\* unwinds the call.  Do takes either for the one run of the function.
OnceDone(t, o, m, e) ==
    /\ once' = "done"
    /\ IF o = "panic"
       THEN /\ mpc' = [mpc EXCEPT ![t] = "idle"]
            /\ mret' = [mret EXCEPT ![t] = ModulePanic]
            /\ UNCHANGED <<asyncMod, asyncModErr>>
       ELSE /\ mpc' = [mpc EXCEPT ![t] = "return"]
            /\ asyncMod' = m
            /\ asyncModErr' = e
            /\ UNCHANGED mret
    /\ UNCHANGED <<marg, mcalls, returned>>

\* newAsyncModule: backend, err := createFunc(mi.Host); the createFunc
\* returns a backend, returns an error, or panics.
CreateFunc(t, o) ==
    /\ mpc[t] = "create"
    /\ o \in {"backend", "error", "panic"}
    /\ creates' = Append(creates, marg[t].create)
    /\ IF o = "backend"
       THEN /\ mpc' = [mpc EXCEPT ![t] = "register"]
            /\ UNCHANGED <<once, asyncMod, asyncModErr, mret, marg, mcalls, returned>>
       ELSE OnceDone(t, o, NilModule, "create")
    /\ UNCHANGED globalBackend

\* newAsyncModule: _globalBackend = backend under the lock, then
\* _globalBackend.Encoder().Register(context.Background()), which returns
\* nil, returns an error, or panics; return &AsyncModule{...}, nil.
Register(t, o) ==
    /\ mpc[t] = "register"
    /\ o \in {"nil", "error", "panic"}
    /\ globalBackend' = marg[t].create
    /\ IF o = "nil"
       THEN OnceDone(t, o, AsyncModule(marg[t].create, marg[t].host), "nil")
       ELSE OnceDone(t, o, NilModule, "register")
    /\ UNCHANGED creates

\* newAsyncModuleSingleton: return _asyncMod, _asyncModErr, which the
\* create function returns as []service.Module{mod}, err.
ModuleReturn(t) ==
    /\ mpc[t] = "return"
    /\ mret' = [mret EXCEPT ![t] = ModuleResult(asyncMod, asyncModErr)]
    /\ returned' = returned \cup {ModuleResult(asyncMod, asyncModErr)}
    /\ mpc' = [mpc EXCEPT ![t] = "idle"]
    /\ UNCHANGED <<once, asyncMod, asyncModErr, globalBackend, marg, mcalls, creates>>

\* --------------------------------------------------- HookRecords, sorted
\* func (rs HookRecords) Len() int
RecordsLen(rs) == Len(rs)

\* Mutant: smaller runtimes at top.
LessAscending(rs, i, j) == rs[i].Runtime < rs[j].Runtime

\* func (rs HookRecords) Less(i, j int) bool: greater runtimes at top.
Less(rs, i, j) == rs[i].Runtime > rs[j].Runtime

\* func (rs HookRecords) Swap(i, j int)
Swap(rs, i, j) == [rs EXCEPT ![i] = rs[j], ![j] = rs[i]]

\* sort.Sort(rs) is called on a HookRecords value.
Sort(rs) ==
    /\ spc \in {"idle", "sorted"}
    /\ rs \in RecordLists
    /\ unsorted' = rs
    /\ sorting' = rs
    /\ si' = 2
    /\ sj' = 2
    /\ spc' = "sort"
    /\ UNCHANGED <<lcVars, callVars, diagVars, histVars, crossVars,
                   graphVars, shutVars, taskVars>>

\* sort.Sort on a short slice is the insertion sort
\*   for i := 1; i < Len(); i++ {
\*       for j := i; j > 0 && Less(j, j-1); j-- { Swap(j, j-1) } }
\* which touches the value through Len, Less and Swap only (indices here
\* count from 1).
SortStep ==
    /\ spc = "sort"
    /\ IF si > RecordsLen(sorting)
       THEN /\ spc' = "sorted"
            /\ UNCHANGED <<sorting, si, sj>>
       ELSE IF sj > 1 /\ Less(sorting, sj, sj - 1)
       THEN /\ sorting' = Swap(sorting, sj, sj - 1)
            /\ sj' = sj - 1
            /\ UNCHANGED <<spc, si>>
       ELSE /\ si' = si + 1
            /\ sj' = si + 1
            /\ UNCHANGED <<spc, sorting>>
    /\ UNCHANGED <<unsorted, lcVars, callVars, diagVars, histVars, crossVars,
                   graphVars, shutVars, taskVars>>

\* ---------------------------------------------------------- specifications
\* The outcomes of the callback that is executing.
Returns(o) == Outcomes(o, runningHook.callerFrame)

\* The lifecycle's threads leave the graph and the Done channels alone.
LcOnly == UNCHANGED <<graphVars, shutVars, taskVars, sortVars>>

\* The calling thread alone: Append, Start and Stop in any order.
Next ==
    \/ \E s \in BOOLEAN, t \in BOOLEAN : AppendHook(s, t) /\ LcOnly
    \/ \E done \in BOOLEAN : CallStart(done) /\ LcOnly
    \/ StartLoop /\ LcOnly
    \/ StartLock1 /\ LcOnly
    \/ StartInvoke /\ LcOnly
    \/ \E e \in Returns("start") : StartCallbackReturn(e) /\ LcOnly
    \/ StartLock2 /\ LcOnly
    \/ \E d \in Durations : StartRecord(d) /\ LcOnly
    \/ \E done \in BOOLEAN : CallStop(done) /\ LcOnly
    \/ StopLock0 /\ LcOnly
    \/ StopReset /\ LcOnly
    \/ StopLoop /\ LcOnly
    \/ StopLock1 /\ LcOnly
    \/ StopInvoke /\ LcOnly
    \/ \E e \in Returns("stop") : StopCallbackReturn(e) /\ LcOnly
    \/ StopLock2 /\ LcOnly
    \/ \E d \in Durations : StopRecord(d) /\ LcOnly
    \/ WrapperRecv /\ LcOnly
    \/ Cancel /\ LcOnly

Spec == Init /\ [][Next]_vars

\* The calling thread appends its hooks (one fewer than MaxHooks, which keeps
\* the progress property tractable), calls Start once and then Stop,
\* while the diagnostic thread calls the accessors at any time.
DiagHooks == MaxHooks - 1

DiagNext ==
    \/ \E s \in BOOLEAN, t \in BOOLEAN :
          calls = 0 /\ Len(hooks) < DiagHooks /\ AppendHook(s, t) /\ LcOnly
    \/ \E done \in BOOLEAN : calls = 0 /\ CallStart(done) /\ LcOnly
    \/ StartLoop /\ LcOnly
    \/ StartLock1 /\ LcOnly
    \/ StartInvoke /\ LcOnly
    \/ \E e \in Returns("start") : StartCallbackReturn(e) /\ LcOnly
    \/ StartLock2 /\ LcOnly
    \/ \E d \in Durations : StartRecord(d) /\ LcOnly
    \/ \E done \in BOOLEAN : calls = 1 /\ CallStop(done) /\ LcOnly
    \/ StopLock0 /\ LcOnly
    \/ StopReset /\ LcOnly
    \/ StopLoop /\ LcOnly
    \/ StopLock1 /\ LcOnly
    \/ StopInvoke /\ LcOnly
    \/ \E e \in Returns("stop") : StopCallbackReturn(e) /\ LcOnly
    \/ StopLock2 /\ LcOnly
    \/ \E d \in Durations : StopRecord(d) /\ LcOnly
    \/ WrapperRecv /\ LcOnly
    \/ Cancel /\ LcOnly
    \/ \E k \in DiagKinds : DiagCall(k) /\ LcOnly
    \/ DiagLock /\ LcOnly
    \/ DiagMake /\ LcOnly
    \/ StartHookRecords /\ LcOnly
    \/ StopHookRecords /\ LcOnly
    \/ RunningHookCaller /\ LcOnly

DiagSpec == Init /\ [][DiagNext]_vars

\* Scheduling: a thread that holds or can take the mutex goes on running, and
\* sync.Mutex hands the lock to a waiter (strong fairness of the waiter's
\* Lock).  Nothing makes a hook callback return.
StartRecordAny == \E d \in Durations : StartRecord(d)
StopRecordAny == \E d \in Durations : StopRecord(d)

FairDiagSpec ==
    /\ DiagSpec
    /\ WF_vars(StartInvoke /\ LcOnly)
    /\ WF_vars(StartRecordAny /\ LcOnly)
    /\ WF_vars(StopReset /\ LcOnly)
    /\ WF_vars(StopInvoke /\ LcOnly)
    /\ WF_vars(StopRecordAny /\ LcOnly)
    /\ SF_vars(DiagLock /\ LcOnly)
    /\ WF_vars(DiagMake /\ LcOnly)
    /\ WF_vars(StartHookRecords /\ LcOnly)
    /\ WF_vars(StopHookRecords /\ LcOnly)
    /\ WF_vars(RunningHookCaller /\ LcOnly)

\* The calling thread appends its hooks and calls Start, one call after the
\* other, any number of times, while the diagnostic thread calls
\* StartHookRecords at any time.
RestartNext ==
    \/ \E s \in BOOLEAN, t \in BOOLEAN :
          calls = 0 /\ Len(hooks) < DiagHooks /\ AppendHook(s, t) /\ LcOnly
    \/ \E done \in BOOLEAN : CallStart(done) /\ LcOnly
    \/ StartLoop /\ LcOnly
    \/ StartLock1 /\ LcOnly
    \/ StartInvoke /\ LcOnly
    \/ \E e \in Returns("start") : StartCallbackReturn(e) /\ LcOnly
    \/ StartLock2 /\ LcOnly
    \/ \E d \in Durations : StartRecord(d) /\ LcOnly
    \/ WrapperRecv /\ LcOnly
    \/ DiagCall("StartHookRecords") /\ LcOnly
    \/ DiagLock /\ LcOnly
    \/ DiagMake /\ LcOnly
    \/ StartHookRecords /\ LcOnly

RestartSpec == Init /\ [][RestartNext]_vars

\* The graph alone: one goroutine registers nodes and calls Resolve, one
\* call after the other, in any order.
GraphOnly == UNCHANGED <<lcVars, callVars, diagVars, histVars, crossVars, shutVars, taskVars, sortVars>>

GraphNext ==
    \/ \E i \in GraphIds : RegisterValue(i) /\ GraphOnly
    \/ \E i \in GraphIds : \E ds \in DepLists(i) : RegisterConstructor(i, ds) /\ GraphOnly
    \/ \E i \in GraphIds : Resolve(1, i) /\ GraphOnly
    \/ ObjNodeValue(1) /\ GraphOnly
    \/ FuncNodeCached(1) /\ GraphOnly
    \/ \E d \in GraphIds : FuncNodeMissing(1, d) /\ GraphOnly
    \/ FuncNodeChecked(1) /\ GraphOnly
    \/ FuncNodeArg(1) /\ GraphOnly
    \/ StackOverflow(1) /\ GraphOnly
    \/ \E out \in CallOutcomes : FuncNodeInvoke(1, out) /\ GraphOnly

GraphSpec == Init /\ [][GraphNext]_vars

\* Scheduling: the goroutine that is inside Resolve goes on running; a
\* constructor that is called returns or panics.
ResolverStep ==
    \/ ObjNodeValue(1)
    \/ FuncNodeCached(1)
    \/ \E d \in GraphIds : FuncNodeMissing(1, d)
    \/ FuncNodeChecked(1)
    \/ FuncNodeArg(1)
    \/ StackOverflow(1)
    \/ \E out \in CallOutcomes : FuncNodeInvoke(1, out)

FairGraphSpec == GraphSpec /\ WF_vars(ResolverStep /\ GraphOnly)

\* Two goroutines resolve in the same graph at the same time.  The graph
\* has the first identities only (two fewer than MaxIds), which keeps the
\* interleavings tractable, and no constructor panics.
ConcIds == 1..(MaxIds - 2)

ConcGraphNext ==
    \/ \E i \in ConcIds : RegisterValue(i) /\ GraphOnly
    \/ \E i \in ConcIds : \E ds \in DepLists(i) :
          (\A p \in DOMAIN ds : ds[p] \in ConcIds) /\ RegisterConstructor(i, ds) /\ GraphOnly
    \/ \E t \in Resolvers : \E i \in ConcIds : Resolve(t, i) /\ GraphOnly
    \/ \E t \in Resolvers : ObjNodeValue(t) /\ GraphOnly
    \/ \E t \in Resolvers : FuncNodeCached(t) /\ GraphOnly
    \/ \E t \in Resolvers : \E d \in ConcIds : FuncNodeMissing(t, d) /\ GraphOnly
    \/ \E t \in Resolvers : FuncNodeChecked(t) /\ GraphOnly
    \/ \E t \in Resolvers : FuncNodeArg(t) /\ GraphOnly
    \/ \E t \in Resolvers : StackOverflow(t) /\ GraphOnly
    \/ \E t \in Resolvers : FuncNodeInvoke(t, "ok") /\ GraphOnly

ConcGraphSpec == Init /\ [][ConcGraphNext]_vars

\* One goroutine registers nodes for the first identities (one fewer than
\* MaxIds) and resolves, and a constructor that is being invoked may
\* register a constructor for another identity; no constructor panics.
LateIds == 1..(MaxIds - 1)

LateGraphNext ==
    \/ \E i \in LateIds : RegisterValue(i) /\ GraphOnly
    \/ \E i \in LateIds : \E ds \in DepLists(i) :
          (\A p \in DOMAIN ds : ds[p] \in LateIds) /\ RegisterConstructor(i, ds) /\ GraphOnly
    \/ \E i \in LateIds : Resolve(1, i) /\ GraphOnly
    \/ ObjNodeValue(1) /\ GraphOnly
    \/ FuncNodeCached(1) /\ GraphOnly
    \/ \E d \in Ids : FuncNodeMissing(1, d) /\ GraphOnly
    \/ FuncNodeChecked(1) /\ GraphOnly
    \/ FuncNodeArg(1) /\ GraphOnly
    \/ StackOverflow(1) /\ GraphOnly
    \/ FuncNodeInvoke(1, "ok") /\ GraphOnly
    \/ \E i \in Ids \ LateIds : \E d \in Ids \ LateIds :
          RegisterInConstructor(1, i, d) /\ GraphOnly

LateGraphSpec == Init /\ [][LateGraphNext]_vars

\* Shutdown alone: Done channels are opened, one goroutine calls Shutdown,
\* one call after the other, and the subscribers receive at any time.
ShutdownOnly == UNCHANGED <<lcVars, callVars, diagVars, histVars, crossVars, graphVars, taskVars, sortVars>>

ShutdownNext ==
    \/ Done /\ ShutdownOnly
    \/ \E v \in Versions : Shutdown(1, v) /\ ShutdownOnly
    \/ CheckDones(1) /\ ShutdownOnly
    \/ RLock(1) /\ ShutdownOnly
    \/ Send(1) /\ ShutdownOnly
    \/ Finish(1) /\ ShutdownOnly
    \/ \E k \in 1..MaxDones : Receive(k) /\ ShutdownOnly

ShutdownSpec == Init /\ [][ShutdownNext]_vars

\* Two goroutines call Shutdown at any time, each one call after the other,
\* while Done channels are opened and the subscribers receive.
ConcShutdownNext ==
    \/ Done /\ ShutdownOnly
    \/ \E t \in Broadcasters : \E v \in Versions : Shutdown(t, v) /\ ShutdownOnly
    \/ \E t \in Broadcasters : CheckDones(t) /\ ShutdownOnly
    \/ \E t \in Broadcasters : RLock(t) /\ ShutdownOnly
    \/ \E t \in Broadcasters : Send(t) /\ ShutdownOnly
    \/ \E t \in Broadcasters : Finish(t) /\ ShutdownOnly
    \/ \E k \in 1..MaxDones : Receive(k) /\ ShutdownOnly

ConcShutdownSpec == Init /\ [][ConcShutdownNext]_vars

\* The goroutines that create the async module leave the rest alone.
TaskOnly == UNCHANGED <<lcVars, callVars, diagVars, histVars, crossVars,
                        graphVars, shutVars, sortVars>>

\* Two goroutines call the module create function, each one call after the
\* other, with any createFunc and host.
TaskNext ==
    \/ \E t \in ModuleCallers : \E f \in CreateFuncs : \E h \in Hosts :
           NewModule(t, f, h) /\ TaskOnly
    \/ \E t \in ModuleCallers : OnceDo(t) /\ TaskOnly
    \/ \E t \in ModuleCallers : \E o \in {"backend", "error", "panic"} :
           CreateFunc(t, o) /\ TaskOnly
    \/ \E t \in ModuleCallers : \E o \in {"nil", "error", "panic"} :
           Register(t, o) /\ TaskOnly
    \/ \E t \in ModuleCallers : ModuleReturn(t) /\ TaskOnly

TaskSpec == Init /\ [][TaskNext]_vars

\* HookRecords values are sorted, one after the other.
SortNext ==
    \/ \E rs \in RecordLists : Sort(rs)
    \/ SortStep

SortSpec == Init /\ [][SortNext]_vars

\* ---------------------------------------------------------------- readings
\* The value the call in progress has returned: still in c, or received.
Result == IF pc = "returned" THEN Head(c) ELSE ret

\* The call named by op has returned.
CallEnded == pc \in {"returned", "idle"}

\* The hooks whose callback was invoked by the current call, in order.
BeginHooks(tr) ==
    LET b == SelectSeq(tr, LAMBDA x : x.ev = "begin")
    IN  [p \in 1..Len(b) |-> b[p].hook]

\* The errors the callbacks of the current call returned, in order.
FailedErrs(tr) ==
    LET f == SelectSeq(tr, LAMBDA x : x.ev = "end" /\ x.err # NilErr)
    IN  [p \in 1..Len(f) |-> f[p].err]

\* The hooks among the first k that have a stop callback, last first.
RevStops(k) ==
    LET down == [p \in 1..k |-> k + 1 - p]
    IN  SelectSeq(down, LAMBDA j : hooks[j].OnStop)

IsPrefix(a, b) == Len(a) <= Len(b) /\ \A p \in 1..Len(a) : a[p] = b[p]

Contains(es, e) == \E q \in 1..Len(es) : es[q] = e

\* ------------------------------------------------------------------ claims

\* C1: Start invokes the start callbacks one at a time and in registration
\* order: at most one callback is executing at any moment, every callback
\* that was invoked has returned before the next one begins, and the hooks
\* invoked by one Start call come in increasing registration order.
C1_StartSequentialInOrder ==
    /\ Cardinality(executing) <= 1
    /\ op = "Start" =>
        /\ \A p \in 1..Len(trace) :
            /\ trace[p].ev = "begin" /\ p < Len(trace) =>
                  trace[p + 1].ev = "end" /\ trace[p + 1].hook = trace[p].hook
            /\ trace[p].ev = "begin" /\ p = Len(trace) =>
                  executing = {trace[p].hook}
            /\ trace[p].ev = "end" =>
                  p > 1 /\ trace[p - 1] = Begin(trace[p].hook)
        /\ \A p, q \in 1..Len(trace) :
              p < q /\ trace[p].ev = "begin" /\ trace[q].ev = "begin" =>
                  trace[p].hook < trace[q].hook
        /\ \A p \in 1..Len(trace) : hooks[trace[p].hook].OnStart

\* A Start call in which a third callback runs after two have returned.
C1_Witness ==
    /\ op = "Start"
    /\ pc = "start_running"
    /\ Len(trace) = 5
    /\ executing = {3}

\* C2: when a start callback returns an error, Start returns exactly that
\* error at once: the error is the last callback event of the call, the call
\* has ended, and its result is that error.
C2_StartErrorHalts ==
    op = "Start" =>
        \A p \in 1..Len(trace) :
            trace[p].ev = "end" /\ trace[p].err # NilErr =>
                /\ p = Len(trace)
                /\ CallEnded
                /\ Result = trace[p].err

\* Start has returned the error of the first hook while a later hook with a
\* start callback was never invoked.
C2_Witness ==
    /\ op = "Start"
    /\ pc = "returned"
    /\ c = <<HookErr("start", 1)>>
    /\ Len(hooks) >= 2
    /\ hooks[2].OnStart
    /\ BeginHooks(trace) = <<1>>

\* The Start-abort case: the first Start of a fresh lifecycle with at least
\* three hooks has returned, h1's start callback succeeded and h2's failed.
C3_Case ==
    /\ calls = 1
    /\ op = "Start"
    /\ CallEnded
    /\ Len(hooks) >= 3
    /\ Contains(trace, End(1, NilErr))
    /\ Contains(trace, End(2, HookErr("start", 2)))

C4_Case ==
    /\ lastStart.made
    /\ lastStart.entry = 0
    /\ lastStart.failed > 0
    /\ op = "Stop"
    /\ stopsSince = 1

C5_StopBestEffort ==
    op = "Stop" /\ CallEnded /\ ~ctxDone =>
        /\ BeginHooks(trace) = RevStops(entryNum)
        /\ Errors(Result) = FailedErrs(trace)
        /\ Result = NilErr <=> FailedErrs(trace) = <<>>

\* A Stop in which the first stop callback failed and the next succeeded.
C5_Witness ==
    /\ op = "Stop"
    /\ pc = "returned"
    /\ ~ctxDone
    /\ Len(trace) = 4
    /\ trace[2].err # NilErr
    /\ trace[4].err = NilErr
    /\ Result = trace[2].err

\* C6 as stated: whatever makes Stop return, every error a stop callback
\* returned during the call is contained in the value Stop returns.
C6_NoStopErrorDropped ==
    op = "Stop" /\ CallEnded =>
        \A p \in 1..Len(FailedErrs(trace)) :
            Contains(Errors(Result), FailedErrs(trace)[p])

\* C7 as stated: over any sequence of calls no start callback runs twice, a
\* Start that returns nil has run every start callback once, no stop callback
\* runs twice, and a stop callback runs only for a hook whose start
\* succeeded (a hook without a start callback starts by being counted).
C7_HooksRunOnce ==
    /\ \A i \in 1..Len(hooks) :
        /\ startCount[i] <= 1
        /\ stopCount[i] <= 1
        /\ stopCount[i] > 0 /\ hooks[i].OnStart => i \in startedOK
    /\ op = "Start" /\ pc = "returned" /\ Head(c) = NilErr =>
          \A i \in 1..Len(hooks) : hooks[i].OnStart => startCount[i] = 1

\* C8: when Start's loop reaches a hook with the context cancelled, its next
\* step is to return the context's error: no callback is invoked and the
\* started-count stays what the hooks before have made it.
C8_StartCancelled ==
    [][pc = "start_loop" /\ ctxDone /\ idx <= Len(hooks) =>
          /\ pc' = "returned"
          /\ c' = <<CtxErr>>
          /\ numStarted' = numStarted
          /\ numStarted = entryNum + idx - 1
          /\ trace' = trace
          /\ executing' = executing]_vars

\* Start returned the context's error at the second hook, which has a start
\* callback, after the first hook's callback had run.
C8_Witness ==
    /\ op = "Start"
    /\ pc = "returned"
    /\ c = <<CtxErr>>
    /\ cutAt = 2
    /\ hooks[2].OnStart
    /\ BeginHooks(trace) = <<1>>
    /\ numStarted = entryNum + 1

\* C9: when Stop's loop reaches a hook with the context cancelled, its next
\* step is to return the context's error without invoking anything; and a
\* Stop that has returned while hooks are still counted as started has
\* returned the context's error, the context being cancelled.
C9_StopCancelled ==
    /\ [][pc = "stop_loop" /\ ctxDone /\ numStarted > 0 =>
             /\ pc' = "returned"
             /\ c' = <<CtxErr>>
             /\ numStarted' = numStarted
             /\ trace' = trace
             /\ executing' = executing]_vars
    /\ [](op = "Stop" /\ CallEnded /\ numStarted > 0 =>
             ctxDone /\ Result = CtxErr)

\* Stop returned the context's error after one stop callback, with a hook
\* that has a stop callback still counted as started.
C9_Witness ==
    /\ op = "Stop"
    /\ pc = "returned"
    /\ c = <<CtxErr>>
    /\ Len(trace) = 2
    /\ numStarted > 0
    /\ numStarted <= Len(hooks)
    /\ hooks[numStarted].OnStop

\* C10: the calling thread never holds the mutex while a callback is
\* executing, and a diagnostic call that waits for the mutex always gets its
\* result, also when the executing callback never returns.
C10_DiagNeverBlocked ==
    /\ [](executing # {} => mu # Main)
    /\ (rpc = "lock") ~> (rpc = "idle" /\ rret.valid)

\* The diagnostic thread holds the mutex while a callback is executing.
C10_Witness ==
    /\ executing # {}
    /\ rpc = "held"
    /\ mu = Diag

\* C11: while a hook's callback is executing, the running hook is that hook,
\* so a RunningHookCaller call that reads it then returns that hook's caller;
\* the running hook changes only in the step that invokes the next callback.
C11_RunningHookIsExecuting ==
    /\ [](executing # {} => executing = {runningHook.callerFrame})
    /\ [][(rpc = "held" /\ rkind = "RunningHookCaller" /\ rpc' = "idle" /\ executing # {})
             => executing = {rret'.caller}]_vars
    /\ [][runningHook' # runningHook
             => pc \in {"start_set", "stop_set"} /\ pc' \in {"start_running", "stop_running"}]_vars

\* RunningHookCaller reads the running hook while the second of two hooks to
\* be stopped is executing its stop callback.
C11_Witness ==
    /\ rpc = "held"
    /\ rkind = "RunningHookCaller"
    /\ pc = "stop_running"
    /\ Len(hooks) = 2
    /\ numStarted = 1
    /\ executing = {hooks[1].callerFrame}
    /\ stopCount[hooks[2].callerFrame] = 1

\* ------------------------------------------------------------ dig: claims
\* Nodes x and y are constructor nodes that have been constructed, and the
\* p-th parameter of x is the q-th parameter of y.
Share(x, p, y, q) ==
    /\ x # y
    /\ nodes[x].cached
    /\ nodes[y].cached
    /\ p \in DOMAIN nodes[x].deps
    /\ q \in DOMAIN nodes[y].deps
    /\ nodes[x].deps[p] = nodes[y].deps[q]

\* C12 as stated: over a sequence of resolve calls every constructor is
\* invoked at most once.
C12_Original == \A i \in Ids : invoked[i] <= 1

\* C12: one resolve call invokes a constructor at most once; over all calls
\* a constructor is invoked again only when its earlier invocations failed,
\* and never after it returned a value, which is the value cached; two
\* constructed nodes that share a dependency received the same value for it,
\* the one its node has cached.
C12_Singleton ==
    /\ \A i \in Ids : ginv[1][i] <= 1
    /\ \A i \in Ids : IF nodes[i].cached
                      THEN nodes[i].cachedValue = CtorValue(i, invoked[i])
                      ELSE invoked[i] <= panics
    /\ \A x \in Ids, y \in Ids, p \in 1..MaxDeps, q \in 1..MaxDeps :
          Share(x, p, y, q) =>
             /\ got[x][p] = got[y][q]
             /\ nodes[nodes[x].deps[p]].kind = "func" =>
                   /\ nodes[nodes[x].deps[p]].cached
                   /\ got[x][p] = nodes[nodes[x].deps[p]].cachedValue

\* Resolve(1) has returned in the graph 1 -> (2, 3), 2 -> 4, 3 -> 4: the
\* constructor of 4 was invoked once and 2 and 3 got its value.
C12_Witness ==
    /\ nodes[1].deps = <<2, 3>>
    /\ nodes[2].deps = <<4>>
    /\ nodes[3].deps = <<4>>
    /\ nodes[4].kind = "func"
    /\ greq[1] = 1
    /\ gres[1] = Ok(CtorValue(1, 1))
    /\ ginv[1][4] = 1
    /\ invoked[4] = 1
    /\ got[2] = <<CtorValue(4, 1)>>
    /\ got[3] = <<CtorValue(4, 1)>>

\* The value() call that is running is one on a cached constructor node.
AtCached(t) ==
    /\ ~Idle(t)
    /\ Top(t).pc = "value"
    /\ nodes[Top(t).id].kind = "func"
    /\ nodes[Top(t).id].cached

\* The running value() call returns v in this step: to the caller of
\* Resolve, or into the args of the frame below.
Returned(t, v) ==
    IF Len(gstack[t]) = 1
    THEN gstack'[t] = <<>> /\ gres'[t] = Ok(v)
    ELSE /\ Len(gstack'[t]) = Len(gstack[t]) - 1
         /\ gstack'[t][Len(gstack'[t])].args =
               Append(gstack[t][Len(gstack[t]) - 1].args, v)

\* C13: a cached constructor node stays cached with the same value, and a
\* resolution that reaches it returns that value: no constructor is invoked
\* and no dependency is checked, whatever the graph is missing.
C13_CacheInvariant ==
    /\ [][\A i \in Ids : nodes[i].cached =>
             nodes'[i].cached /\ nodes'[i].cachedValue = nodes[i].cachedValue]_vars
    /\ [][AtCached(1) =>
             /\ Returned(1, nodes[Top(1).id].cachedValue)
             /\ invoked' = invoked
             /\ nodes' = nodes]_vars

\* A resolve of a cached constructor node has returned its value while
\* another node's dependency is not registered.
C13_Witness ==
    /\ Idle(1)
    /\ greq[1] \in Ids
    /\ nodes[greq[1]].kind = "func"
    /\ nodes[greq[1]].cached
    /\ ginv[1][greq[1]] = 0
    /\ gres[1] = Ok(nodes[greq[1]].cachedValue)
    /\ MissingDeps # {}

\* The dependencies a node declares.
Declared(i) == {nodes[i].deps[p] : p \in DOMAIN nodes[i].deps}

\* C14: when the resolve of a constructor node that declares an unregistered
\* dependency has failed in the dependency check, the error names that
\* node's constructor and a dependency that this constructor declares.
C14_MissingNamesDeclarer ==
    (/\ gres[1].kind = "missing"
     /\ gres[1].ctor # 0
     /\ \E d \in Declared(gres[1].ctor) : nodes[d].kind = "none")
    => gres[1].dep \in Declared(gres[1].ctor)

\* C15: when a constructor fails, the caller of resolve gets the failure and
\* no node of the graph changes, so the node is still uncached; and a node
\* becomes cached only by a new invocation of its constructor, so a later
\* resolve of the identity invokes it again.
C15_FailureNotCached ==
    /\ [][(gres[1].kind # "panic" /\ gres'[1].kind = "panic") =>
             /\ gstack'[1] = <<>>
             /\ gres'[1] = Panicked(Top(1).id)
             /\ invoked'[Top(1).id] = invoked[Top(1).id] + 1
             /\ nodes' = nodes
             /\ ~nodes'[Top(1).id].cached]_vars
    /\ [][\A i \in Ids : (nodes[i].kind = "func" /\ ~nodes[i].cached /\ nodes'[i].cached) =>
             /\ invoked'[i] = invoked[i] + 1
             /\ nodes'[i].cachedValue = CtorValue(i, invoked'[i])]_vars

\* A constructor failed in one resolve, and a later resolve of the same
\* identity has invoked it again and returned its second value.
C15_Witness ==
    /\ Idle(1)
    /\ greq[1] \in Ids
    /\ panics = 1
    /\ invoked[greq[1]] = 2
    /\ ginv[1][greq[1]] = 1
    /\ nodes[greq[1]].cached
    /\ gres[1] = Ok(CtorValue(greq[1], 2))

\* ------------------------------------------------------- shutdown: claims
\* Goroutine t's last Shutdown call has returned.
ShutdownReturned(t) == bpc[t] = "idle" /\ bres[t].kind # "none"

\* The channels goroutine t's current (or last) Shutdown call has visited.
Visited(t) == bsent[t] \cup bfull[t]

\* C16: a Shutdown that found no Done channel to send to has returned the
\* error for an App without Done channels.
C16_EmptyBroadcastFails ==
    (ShutdownReturned(1) /\ Visited(1) = {}) => bres[1].kind = "noDones"

\* C17: a broadcast can always take the next round of its loop, whatever the
\* channel holds; each round visits the next channel, which it has not visited
\* before, and puts the signal into it if its buffer was empty; the loop ends
\* only when every registered channel has been visited; and a channel the
\* broadcast sent to holds its signal until the subscriber receives it.
C17_BroadcastVisitsAll ==
    /\ [](bpc[1] = "range" /\ bi[1] <= Len(dones) => ENABLED Send(1))
    /\ [][(bpc[1] = "range" /\ bi'[1] # bi[1]) =>
             /\ bi'[1] = bi[1] + 1
             /\ bi[1] \notin Visited(1)
             /\ bsent'[1] \cup bfull'[1] = Visited(1) \cup {bi[1]}
             /\ dones[bi[1]] = <<>> => dones'[bi[1]] = <<Sig(btag[1])>>]_vars
    /\ [][(bpc[1] = "range" /\ bpc'[1] = "idle") => Visited(1) = 1..Len(dones)]_vars
    /\ [](\A k \in bsent[1] : dones[k] = <<Sig(btag[1])>> \/ recvd[k] = Sig(btag[1]))

\* Two subscribers, the first with a pending signal: the broadcast has
\* returned, and the second subscriber holds the new signal.
C17_Witness ==
    /\ ShutdownReturned(1)
    /\ Len(dones) = 2
    /\ bfull[1] = {1}
    /\ bsent[1] = {2}
    /\ dones[1] # <<>>
    /\ dones[1] # <<Sig(btag[1])>>
    /\ dones[2] = <<Sig(btag[1])>>

\* C18: a broadcast over at least one channel returns nil exactly when it
\* has put the signal into every channel, and otherwise the error whose
\* unsent is the number of channels it found full and whose total is the
\* number of registered channels; a Shutdown that found every Done channel
\* empty returns nil, and every Done channel yields its SIGTERM.
C18_ResultCountsUnsent ==
    /\ [][(bpc[1] = "range" /\ bpc'[1] = "idle" /\ Len(dones) >= 1) =>
             /\ bres'[1].kind = "nil" <=> bsent[1] = 1..Len(dones)
             /\ bres'[1].kind # "nil" =>
                   bres'[1] = Unsent(Cardinality(bfull[1]), Len(dones))]_vars
    /\ [](ShutdownReturned(1) /\ bentry[1].allEmpty /\ Visited(1) # {} =>
             /\ bres[1] = NilReturn
             /\ \A k \in Visited(1) :
                   dones[k] = <<Sig(btag[1])>> \/ recvd[k] = Sig(btag[1]))

\* Shutdown has returned nil with two Done channels, and both subscribers
\* have received its SIGTERM.
C18_Witness ==
    /\ ShutdownReturned(1)
    /\ bres[1] = NilReturn
    /\ Len(dones) = 2
    /\ bsent[1] = {1, 2}
    /\ recvd[1] = Sig(btag[1])
    /\ recvd[2] = Sig(btag[1])

\* C19: a Done channel never holds more than one signal; the signal it
\* holds, a SIGTERM, stays until the subscriber receives it, which empties
\* the channel; and a Shutdown that found a channel full returns an error.
C19_PendingSignalKept ==
    /\ [](\A k \in DOMAIN dones :
             Len(dones[k]) <= 1 /\ (dones[k] # <<>> => Head(dones[k]).sig = "SIGTERM"))
    /\ [][\A k \in DOMAIN dones : dones[k] # <<>> =>
             \/ dones'[k] = dones[k]
             \/ dones'[k] = <<>> /\ recvd'[k] = Head(dones[k])]_vars
    /\ [][(bpc[1] = "range" /\ bpc'[1] = "idle" /\ bfull[1] # {}) =>
             bres'[1].kind = "unsent"]_vars

\* One Done channel: the first Shutdown returned nil, the second one an
\* error, and the subscriber has then received the first one's SIGTERM.
C19_Witness ==
    /\ Len(dones) = 1
    /\ btag[1] = 2
    /\ bres[1] = Unsent(1, 1)
    /\ dones[1] = <<>>
    /\ recvd[1] = Sig(1)

\* C20 as stated: the Shutdown that follows one that reported unsent
\* signals returns nil if every subscriber whose channel that one had found
\* full has received in between.
C20_Original ==
    (ShutdownReturned(1) /\ bentry[1].retry /\ bentry[1].fullReceived)
    => bres[1] = NilReturn

\* C20: the Shutdown that follows one that reported unsent signals returns
\* nil if every subscriber that held a signal has received it in between,
\* those the earlier Shutdown sent to as well as those it had found full.
C20_RetryDelivers ==
    (ShutdownReturned(1) /\ bentry[1].retry /\ bentry[1].allEmpty)
    => bres[1] = NilReturn

\* The retry has returned nil after both subscribers had emptied their
\* channels, and both channels hold its signal.
C20_Witness ==
    /\ ShutdownReturned(1)
    /\ bentry[1].retry
    /\ bentry[1].allEmpty
    /\ bres[1] = NilReturn
    /\ bsent[1] = {1, 2}
    /\ dones = <<<<Sig(btag[1])>>, <<Sig(btag[1])>>>>

\* --------------------------------------------- dig: concurrent resolution
\* Goroutine t has found the node uncached and has resolved its arguments.
ReadyToInvoke(t) ==
    /\ ~crashed
    /\ ~Idle(t)
    /\ Top(t).pc = "args"
    /\ Top(t).idx > Len(nodes[Top(t).id].deps)

\* C21: nothing holds back a goroutine that has found a node uncached: it
\* invokes the constructor also when the other goroutine has invoked it and
\* cached the node in the meantime.
C21_NoConstructOnceGuard ==
    [](\A t \in Resolvers : ReadyToInvoke(t) => ENABLED FuncNodeInvoke(t, "ok"))

\* Both goroutines have invoked the constructor of the same node, which
\* never failed: it has been invoked twice.
C21_Witness ==
    \E i \in ConcIds :
        /\ panics = 0
        /\ ginv[1][i] = 1
        /\ ginv[2][i] = 1
        /\ invoked[i] = 2
        /\ gres[1] = Ok(CtorValue(i, 1))
        /\ gres[2] = Ok(CtorValue(i, 2))

\* -------------------------------------------------- dig: claims, continued
\* Resolve's result for goroutine t is new in this step, and it is the error
\* for a dependency that is not registered.
FailsMissing(t) ==
    /\ gres'[t].kind = "missing"
    /\ <<gres[t], gstack[t], greq[t], ginv[t]>>' # <<gres[t], gstack[t], greq[t], ginv[t]>>

DepsOf(i) == {nodes[i].deps[p] : p \in DOMAIN nodes[i].deps}

RECURSIVE ReachFrom(_, _)
\* The identities within n dependency steps of the identities S.
ReachFrom(S, n) ==
    IF n = 0 THEN S
    ELSE ReachFrom(S \cup UNION {DepsOf(i) : i \in S}, n - 1)

\* The identities node i transitively depends on.
TransitiveDeps(i) == ReachFrom(DepsOf(i), MaxIds)

\* C23: resolve(id) of a registered constructor fails with the
\* missing-dependency error only when some identity that id's node
\* transitively depends on is not registered.
C23_MissingIsOwn ==
    [][(FailsMissing(1) /\ gres'[1].ctor # 0) =>
          \E d \in TransitiveDeps(greq[1]) : nodes[d].kind = "none"]_vars

\* The value a resolved dependency d has: reflect.ValueOf of a registered
\* object, the cached value of a constructor.
ResolvedValue(d) ==
    IF nodes[d].kind = "obj" THEN ObjValue(d) ELSE nodes[d].cachedValue

\* The dependency d has been resolved: it is a registered object, or a
\* constructor whose value is cached.
IsResolved(d) ==
    \/ nodes[d].kind = "obj"
    \/ nodes[d].kind = "func" /\ nodes[d].cached

\* C24: a constructor that has been invoked was invoked after each of its
\* dependencies was resolved, with the resolved value of its p-th declared
\* dependency as its p-th argument.
C24_PostOrderArgs ==
    \A i \in Ids :
        invoked[i] > 0 =>
            /\ Len(got[i]) = Len(nodes[i].deps)
            /\ \A p \in DOMAIN nodes[i].deps :
                  /\ IsResolved(nodes[i].deps[p])
                  /\ got[i][p] = ResolvedValue(nodes[i].deps[p])

\* A constructor with two dependencies, one an object and one a constructor,
\* has been invoked with their two different values in the declared order.
C24_Witness ==
    \E i \in Ids :
        /\ invoked[i] = 1
        /\ Len(nodes[i].deps) = 2
        /\ {nodes[nodes[i].deps[p]].kind : p \in 1..2} = {"obj", "func"}
        /\ got[i] = <<ResolvedValue(nodes[i].deps[1]), ResolvedValue(nodes[i].deps[2])>>
        /\ got[i][1] # got[i][2]
        /\ \A p \in 1..2 : invoked[nodes[i].deps[p]] = IF nodes[nodes[i].deps[p]].kind = "func" THEN 1 ELSE 0

\* ------------------------------------------- lifecycle: claims, continued
\* C25: hooks with a nil callback keep Start and Stop symmetric: a hook
\* without a start callback is counted as started, so that when a Start
\* returns nil the started-count equals the number of registered hooks.
C25_NilCountedSymmetric ==
    (op = "Start" /\ pc = "returned" /\ c = <<NilErr>>) => numStarted = Len(hooks)

\* The caller frames of a list of records, in order.
Frames(rs) == [p \in DOMAIN rs |-> rs[p].CallerFrame]

\* The hooks whose callback the current call invoked and that has returned,
\* in the order in which they returned: all of them, or only those that
\* returned nil.
ReturnedHooks(onlyNil) ==
    LET ends == SelectSeq(trace, LAMBDA x : x.ev = "end" /\ (onlyNil => x.err = NilErr))
    IN  [p \in DOMAIN ends |-> ends[p].hook]

\* C26: after a Start call the start records are those of the hooks whose
\* start callback that call invoked and that returned nil, one each, in the
\* order of execution: none for a callback that failed, for a hook without
\* a start callback, for a hook not reached.
C26_StartRecordsAreSuccesses ==
    (op = "Start" /\ pc \in {"returned", "idle"}) =>
        /\ Frames(startRecords) = ReturnedHooks(TRUE)
        /\ \A p \in DOMAIN startRecords : startRecords[p].Func = "OnStart"

\* A second Start has returned after a hook without a start callback was
\* passed, one callback succeeded and the next failed: one record.
C26_Witness ==
    /\ op = "Start"
    /\ pc = "returned"
    /\ calls = 2
    /\ Len(hooks) = 3
    /\ ~hooks[1].OnStart
    /\ trace = <<Begin(2), End(2, NilErr), Begin(3), End(3, HookErr("start", 3))>>
    /\ Frames(startRecords) = <<2>>

\* Stop is not between a stop callback's return and its record, and has
\* replaced the stop records of the call before.
StopRecordsSettled ==
    /\ op = "Stop"
    /\ pc \in {"stop_loop", "stop_lock1", "stop_set", "stop_running",
               "returned", "panicked", "idle"}

AccessorReturns(k) == rpc = "made" /\ rkind = k /\ rpc' = "idle"

\* C28: StartHookRecords and StopHookRecords return a copy of the records
\* taken atomically under the lock: from the accessor's Lock to its return
\* the internal lists do not change, and the list returned is the internal
\* list of that time; what the caller holds changes afterwards only by
\* another accessor call.
C28_AtomicCopy ==
    /\ [][(rpc \in {"held", "made"}) =>
             (startRecords' = startRecords /\ stopRecords' = stopRecords)]_vars
    /\ [][AccessorReturns("StartHookRecords") => rret'.records = startRecords]_vars
    /\ [][AccessorReturns("StopHookRecords") => rret'.records = stopRecords]_vars
    /\ [][rret' # rret => rpc' # rpc]_vars

\* C29: Start and Stop write the start records, the stop records and the
\* running hook, the reset of a record list at the beginning of Start and
\* of Stop included, only while the calling thread holds the mutex.
C29_WritesUnderMutex ==
    [][<<startRecords, stopRecords, runningHook>>' # <<startRecords, stopRecords, runningHook>>
          => mu = Main]_vars

\* ---------------------------------------------- shutdown: claims, continued
\* C30: a broadcast holds the read lock when it checks whether app.dones is
\* empty and while it ranges over app.dones.
C30_ReadsUnderReadLock ==
    \A t \in Broadcasters : bpc[t] \in {"check", "range"} => t \in readers

\* ------------------------------------------ lifecycle: invariants and Stop
\* C31: the started-count is never negative and never more than the number
\* of registered hooks, so l.hooks[l.numStarted-1] in Stop is in range.
C31_NumStartedInRange ==
    /\ 0 <= numStarted
    /\ numStarted <= Len(hooks)

\* The Stop call named by op has returned and was not cut short by the
\* cancellation of its context.
StopCompleted == op = "Stop" /\ CallEnded /\ cutAt = 0

\* C32: after a Stop that was not cut short by cancellation nothing is
\* counted as started, whatever errors it returned; a Stop called next
\* finds the count 0, and a Stop that finds the count 0 invokes no stop
\* callback and returns nil.
C32_StopIdempotent ==
    /\ [](StopCompleted => numStarted = 0)
    /\ [][(StopCompleted /\ pc' = "stop_lock0") => entryNum' = 0]_vars
    /\ []((op = "Stop" /\ entryNum = 0) =>
             /\ trace = <<>>
             /\ executing = {}
             /\ (CallEnded => Result = NilErr))

\* The second of two Stop calls after a Start has returned nil without
\* invoking anything; the first had invoked a stop callback.
C32_Witness ==
    /\ op = "Stop"
    /\ pc = "returned"
    /\ calls = 3
    /\ stopsSince = 2
    /\ entryNum = 0
    /\ c = <<NilErr>>
    /\ trace = <<>>
    /\ \E i \in 1..Len(hooks) : hooks[i].OnStop /\ stopCount[i] = 1

\* The Stop call named by op has returned the context's error with cutAt
\* hooks still counted as started.
StopCutShort == op = "Stop" /\ CallEnded /\ cutAt > 0

\* The hooks from position hi down to position lo + 1 that have a stop
\* callback, last first.
RevStopsFrom(hi, lo) ==
    LET down == [p \in 1..(hi - lo) |-> hi + 1 - p]
    IN  SelectSeq(down, LAMBDA j : hooks[j].OnStop)

\* C33: a Stop that returns the context's error with k hooks still counted
\* has invoked the stop callbacks of the hooks above k and leaves the count
\* at k; the next Stop is entered with k, and a Stop that returns with its
\* context not cancelled has invoked the stop callbacks of the hooks it was
\* entered with, k down to 1: over both calls each once, none skipped.
C33_StopResumable ==
    /\ [](StopCutShort =>
             /\ Result = CtxErr
             /\ numStarted = cutAt
             /\ BeginHooks(trace) = RevStopsFrom(entryNum, cutAt))
    /\ [][(StopCutShort /\ pc' = "stop_lock0") => entryNum' = cutAt]_vars
    /\ []((op = "Stop" /\ CallEnded /\ ~ctxDone) =>
             /\ BeginHooks(trace) = RevStopsFrom(entryNum, 0)
             /\ numStarted = 0)

\* Two hooks with stop callbacks were started; the first Stop invoked the
\* second hook's and was cut short, the second Stop has invoked the first
\* hook's and returned.
C33_Witness ==
    /\ op = "Stop"
    /\ pc = "returned"
    /\ ~ctxDone
    /\ lastStart.entry = 0
    /\ stopsSince = 2
    /\ Len(hooks) = 2
    /\ entryNum = 1
    /\ BeginHooks(trace) = <<1>>
    /\ stopCount[1] = 1
    /\ stopCount[2] = 1

\* ------------------------------------- dig: errors of a dependency, cycles
\* The value() call that runs for goroutine t is one for a dependency (it
\* is not the call Resolve made), its node is a constructor that is not
\* cached, a dependency of the graph has no node, and the call takes a step.
DependencyFails(t) ==
    /\ ~crashed
    /\ Len(gstack[t]) > 1
    /\ Top(t).pc = "value"
    /\ nodes[Top(t).id].kind = "func"
    /\ ~nodes[Top(t).id].cached
    /\ MissingDeps # {}
    /\ gstack'[t] # gstack[t]

\* The nodes whose value() calls wait for the call that is running.
Dependents(t) == {gstack[t][k].id : k \in 1..(Len(gstack[t]) - 1)}

\* C34: when the value() call for a dependency returns an error, every
\* dependent call returns: no constructor is invoked, no node changes (the
\* dependents stay uncached, what was constructed before stays cached), and
\* Resolve's caller gets the dependency's error wrapped once by every
\* dependent; and a cached node stays cached with its value.
C34_DependencyErrorWrapped ==
    /\ [][DependencyFails(1) =>
             /\ gstack'[1] = <<>>
             /\ invoked' = invoked
             /\ ginv' = ginv
             /\ nodes' = nodes
             /\ \A i \in Dependents(1) : ~nodes'[i].cached
             /\ gres'[1].kind = "missing"
             /\ gres'[1].ctor = Top(1).id
             /\ nodes[gres'[1].dep].kind = "none"
             /\ gres'[1].wraps = Len(gstack[1]) - 1]_vars
    /\ [][\A i \in Ids : nodes[i].cached =>
             (nodes'[i].cached /\ nodes'[i].cachedValue = nodes[i].cachedValue)]_vars

\* resolve(1) in the graph 1 -> (2, 3): the constructor of 2 was invoked and,
\* while it ran, a constructor with an unregistered dependency was
\* registered; the value() call of 3 then failed, 1 was not invoked, and 2
\* is cached.
C34_Witness ==
    /\ Idle(1)
    /\ greq[1] = 1
    /\ nodes[1].deps = <<2, 3>>
    /\ nodes[3].kind = "func"
    /\ gres[1].kind = "missing"
    /\ gres[1].ctor = 3
    /\ gres[1].wraps = 1
    /\ nodes[gres[1].dep].kind = "none"
    /\ ginv[1][2] = 1
    /\ nodes[2].cached
    /\ invoked[1] = 0
    /\ ~nodes[1].cached
    /\ ~nodes[3].cached

\* No node of the graph depends on itself, directly or through others.
Acyclic == \A i \in Ids : i \notin TransitiveDeps(i)

\* The nodes a resolve of identity i has to do with.
Reachable(i) == {i} \cup TransitiveDeps(i)

\* Goroutine t's Resolve returns in this step.
ResolveReturns(t) == ~Idle(t) /\ gstack'[t] = <<>> /\ ~crashed'

\* C35 as stated: in an acyclic graph without unregistered dependencies a
\* resolve that returns leaves every constructor node reachable from the
\* identity cached.
C35_Original ==
    [][(ResolveReturns(1) /\ Acyclic /\ MissingDeps = {}) =>
          \A i \in Reachable(greq[1]) : nodes'[i].kind = "func" => nodes'[i].cached]_vars

\* C35: in an acyclic graph without unregistered dependencies a resolve
\* call ends; it invokes no constructor more than once; and it ends with a
\* constructor's failure or with a value, in which case every constructor
\* node reachable from the identity is cached.
C35_ResolveTerminates ==
    /\ (~Idle(1) /\ Acyclic /\ MissingDeps = {}) ~> Idle(1)
    /\ [](\A i \in Ids : ginv[1][i] <= 1)
    /\ [][(ResolveReturns(1) /\ Acyclic /\ MissingDeps = {}) =>
             /\ gres'[1].kind \in {"value", "panic"}
             /\ gres'[1].kind = "value" =>
                   \A i \in Reachable(greq[1]) :
                       nodes'[i].kind = "func" => nodes'[i].cached]_vars

\* resolve(1) has returned a value in the graph 1 -> (2, 3), 2 -> 4, 3 -> 4
\* of four constructors, each invoked once and cached.
C35_Witness ==
    /\ Idle(1)
    /\ greq[1] = 1
    /\ gres[1] = Ok(CtorValue(1, 1))
    /\ nodes[1].deps = <<2, 3>>
    /\ nodes[2].deps = <<4>>
    /\ nodes[3].deps = <<4>>
    /\ nodes[4].kind = "func"
    /\ Acyclic
    /\ MissingDeps = {}
    /\ \A i \in GraphIds : ginv[1][i] = 1 /\ nodes[i].cached

\* --------------------------------------------- shutdown: concurrent calls
\* C36: a Done channel never holds more than one signal, whatever the
\* broadcasts and the subscribers do; a signal goes only into a channel that
\* is empty; and for every broadcast the channels it has sent to and the
\* unsent it counts (and then reports) add up to the channels it visited.
C36_OneSlotAndCounts ==
    /\ [](\A k \in DOMAIN dones : Len(dones[k]) <= 1)
    /\ [][\A k \in DOMAIN dones :
             (dones'[k] # dones[k] /\ dones'[k] # <<>>) => dones[k] = <<>>]_vars
    /\ [](\A t \in Broadcasters :
             /\ bsent[t] \cap bfull[t] = {}
             /\ bpc[t] = "range" =>
                   /\ Visited(t) = 1..(bi[t] - 1)
                   /\ Cardinality(bsent[t]) + unsent[t] = Cardinality(Visited(t))
             /\ ShutdownReturned(t) =>
                   Cardinality(bsent[t]) + bres[t].unsent = Cardinality(Visited(t)))

\* Both goroutines are in their loops: the first one sent to the first
\* channel, its subscriber received, and the second one sent to it too.
C36_Witness ==
    /\ bpc[1] = "range"
    /\ bpc[2] = "range"
    /\ Len(dones) = 2
    /\ 1 \in bsent[1]
    /\ 1 \in bsent[2]
    /\ recvd[1] = Sig(btag[1])
    /\ dones[1] = <<Sig(btag[2])>>

\* The first two Shutdown calls of the App are one of each goroutine, so that
\* every channel was empty when they began, and no subscriber has received.
TwoBroadcasts ==
    /\ bcalls = 2
    /\ {btag[1], btag[2]} = {1, 2}
    /\ \A k \in DOMAIN dones : recvd[k] = NoSig

\* Both calls have returned and have gone over the same channels.
BothBroadcast ==
    /\ TwoBroadcasts
    /\ \A t \in Broadcasters : ShutdownReturned(t)
    /\ Visited(1) = Visited(2)
    /\ Visited(1) # {}

\* C37: of two broadcasts over the same empty channels, with no receive in
\* between, every channel takes the signal of exactly one; neither call ever
\* waits, for the lock or for a channel; and at least one of the two returns
\* the error that counts its unsent signals.
C37_TwoBroadcasts ==
    /\ [](TwoBroadcasts =>
             /\ bsent[1] \cap bsent[2] = {}
             /\ \A t \in Broadcasters : \A k \in bsent[t] :
                    dones[k] = <<Sig(btag[t])>>)
    /\ [](BothBroadcast =>
             /\ bsent[1] \cup bsent[2] = Visited(1)
             /\ \E t \in Broadcasters : bres[t].kind = "unsent")
    /\ [](\A t \in Broadcasters :
             /\ bpc[t] = "rlock" => ENABLED (RLock(t) /\ ShutdownOnly)
             /\ bpc[t] = "range" =>
                   ENABLED ((Send(t) \/ Finish(t)) /\ ShutdownOnly))

\* The two broadcasts crossed: each one sent to one channel and found the
\* other one full, and both returned the error.
C37_Witness ==
    /\ BothBroadcast
    /\ bsent[1] = {1}
    /\ bsent[2] = {2}
    /\ bres[1] = Unsent(1, 2)
    /\ bres[2] = Unsent(1, 2)

\* ------------------------------------------------- task: the async module
\* C38: whatever number of calls of the module create function are made, one
\* after the other or at once, at most one createFunc is ever invoked; every
\* call that returns returns the same module and the same error, those of
\* the one creation; and once the creation has ended, failed or not, it is
\* not made again.
C38_ModuleSingleton ==
    /\ [](Len(creates) <= 1)
    /\ [](Cardinality(returned) <= 1)
    /\ [](\A t \in ModuleCallers :
             mret[t].kind = "returned" =>
                 /\ once = "done"
                 /\ mret[t] = ModuleResult(asyncMod, asyncModErr))
    /\ [][(once = "done") =>
             (/\ once' = "done"
              /\ creates' = creates
              /\ asyncMod' = asyncMod
              /\ asyncModErr' = asyncModErr)]_vars

\* The first creation failed, and a later call with another createFunc has
\* returned its error without that createFunc being invoked.
C38_Witness ==
    /\ mcalls = MaxModuleCalls
    /\ asyncModErr = "create"
    /\ \E t \in ModuleCallers :
           /\ mret[t] = ModuleResult(NilModule, "create")
           /\ \E f \in CreateFuncs \ {marg[t].create} : creates = <<f>>
    /\ \A t \in ModuleCallers : mret[t].kind = "returned"

\* --------------------------------------------------- HookRecords, sorted
\* The number of times record r occurs in the list rs.
Occurrences(rs, r) == Cardinality({p \in DOMAIN rs : rs[p] = r})

\* C39: in every HookRecords value Less(i, j) holds exactly when record i ran
\* strictly longer than record j; and a sorted value has its runtimes in
\* non-increasing order and holds the records it held before, each as often.
C39_SortedByDescendingRuntime ==
    /\ \A i, j \in DOMAIN sorting :
           Less(sorting, i, j) <=>
               sorting[i].Runtime - sorting[j].Runtime \in 1..MaxRuntime
    /\ spc = "sorted" =>
           /\ \A p \in DOMAIN sorting :
                  p > 1 => sorting[p - 1].Runtime >= sorting[p].Runtime
           /\ Len(sorting) = Len(unsorted)
           /\ \A r \in SortRecords :
                  Occurrences(sorting, r) = Occurrences(unsorted, r)

\* A list of three records in ascending order of runtime, two of them of
\* the same caller, has been sorted into the reverse order.
C39_Witness ==
    /\ spc = "sorted"
    /\ Len(unsorted) = MaxRecords
    /\ \A p \in DOMAIN unsorted :
           p > 1 => unsorted[p - 1].Runtime < unsorted[p].Runtime
    /\ unsorted[1].CallerFrame = unsorted[MaxRecords].CallerFrame
    /\ sorting = [p \in DOMAIN unsorted |-> unsorted[MaxRecords + 1 - p]]

====
